---------------------------- MODULE Spec2Model ----------------------------
(***************************************************************************)
(* Flappy Rust: the Bevy Update schedule of src/main.rs as a state         *)
(* machine.  One frame is: a frame boundary (keyboard input, state         *)
(* transition, frame time), then every system whose run condition holds,   *)
(* once each, in an order the schedule does not fix, then the deferred     *)
(* commands of the frame.                                                  *)
(*                                                                         *)
(* Numbers.  f32 values are modelled by exact rationals:                   *)
(*   - frame time is a multiple of 1/TIME_DEN second;                      *)
(*   - velocities, the bird's y and every x are whole pixels (exact for    *)
(*     the frame times of DtSet);                                          *)
(*   - the tilt is a multiple of 1/TILT_DEN radian;                        *)
(*   - pipe heights and centres are fixed-point pairs <<w, f>> standing    *)
(*     for w + f/FR pixels with 0 <= f < FR (two limbs, since the values   *)
(*     do not fit TLC's 32-bit integers in units of 1/FR).                 *)
(* Rounding of f32 is not modelled.                                        *)
(***************************************************************************)
EXTENDS Integers, Sequences, FiniteSets, TLC

(***************************************************************************)
(* Program constants (src/src/constants.rs)                                *)
(***************************************************************************)
WINDOW_WIDTH == 400
WINDOW_HEIGHT == 600
GRAVITY == -800
FLAP_STRENGTH == 350
BIRD_SIZE == 30
TILT_SPEED == 5
PIPE_WIDTH == 60
PIPE_SPAWN_TIME == 2
PIPE_GAP_START_MIN == 140
PIPE_GAP_START_MAX == 160
PIPE_GAP_END == 110
PIPE_GAP_SCALE_SCORE == 20
WORLD_SCROLL_SPEED == 150
GROUND_HEIGHT == 50
\* the margin literal 100.0 of spawn_pipe_pair
GAP_MARGIN == 100
\* the literal 500.0 of bird_tilt
TILT_FALL_DIVISOR == 500
\* x of Transform::from_xyz(-50.0, 0.0, 1.0)
BIRD_START_X == -50
BIRD_START_Y == 0
\* rand_f32 returns (seed % 10000) / 10000
RAND_MOD == 10000
\* height of the logical viewport (GameViewport::default)
GAME_HEIGHT == WINDOW_HEIGHT

\* effect times are counted in 1/EFFECT_DEN s, alphas in 1/ALPHA_DEN
EFFECT_DEN == 20
ALPHA_DEN == 1000
\* 0.3 s, 0.15 s, 0.1 s and 0.2 s
SCREEN_SHAKE_DURATION == (3 * EFFECT_DEN) \div 10
DEATH_FLASH_DURATION == (15 * EFFECT_DEN) \div 100
SCORE_FLASH_DURATION == EFFECT_DEN \div 10
SCORE_POP_DURATION == (2 * EFFECT_DEN) \div 10
FLAP_SQUASH_DURATION == (15 * EFFECT_DEN) \div 100
SCREEN_SHAKE_INTENSITY == 8
\* alphas 0.6 and 0.3
DEATH_FLASH_ALPHA == (6 * ALPHA_DEN) \div 10
SCORE_FLASH_ALPHA == (3 * ALPHA_DEN) \div 10
\* (1.0, 0.3, 0.2) and (1.0, 0.9, 0.3)
DEATH_FLASH_COLOR == "red"
SCORE_FLASH_COLOR == "gold"
DEATH_PARTICLE_COUNT == 15
FLAP_PARTICLE_COUNT_MIN == 3
FLAP_PARTICLE_COUNT_MAX == 6

(***************************************************************************)
(* Discretisation and bounds                                               *)
(***************************************************************************)
\* frame times are multiples of 1/TIME_DEN second
TIME_DEN == 5
\* frame times (in 1/TIME_DEN s) a frame can take
DtSet == {0, 1}
\* the tilt is kept in units of 1/TILT_DEN radian
TILT_DEN == 350
\* fine units per pixel of the fixed-point pairs
FR == 2 * RAND_MOD * RAND_MOD
\* numerators k of the values k/RAND_MOD that rand_f32 is taken to return
RandDraws == {0, RAND_MOD - 1}
\* numerators of the draws given to spawn_pipe_pair when it is checked alone
SpawnDraws == {0, 1, RAND_MOD \div 4, RAND_MOD \div 2, RAND_MOD - 2, RAND_MOD - 1}
\* frames explored by one run
MaxTicks == 9
\* largest score given to spawn_pipe_pair when it is checked alone
MaxSpawnScore == 22
\* frames explored by one run of the game with its effects, after the warm-up
MaxEffectTicks == 5
\* frames explored by one run from the menu or from the game in progress
MaxIdleTicks == 7

(***************************************************************************)
(* Fixed-point pairs <<w, f>> = w + f/FR                                   *)
(***************************************************************************)
FxNorm(w, f) == <<w + (f \div FR), f % FR>>
FxInt(n) == <<n, 0>>
\* n/den for den a divisor of FR
FxFrac(n, den) == FxNorm(n \div den, (n % den) * (FR \div den))
FxAdd(a, b) == FxNorm(a[1] + b[1], a[2] + b[2])
FxSub(a, b) == FxNorm(a[1] - b[1], a[2] - b[2])
FxNeg(a) == FxNorm(-a[1], -a[2])
\* a / 2.0 (exact when a is a multiple of 2/FR)
FxHalf(a) == FxNorm(a[1] \div 2, ((a[1] % 2) * FR + a[2]) \div 2)
FxLt(a, b) == a[1] < b[1] \/ (a[1] = b[1] /\ a[2] < b[2])
FxLe(a, b) == a[1] < b[1] \/ (a[1] = b[1] /\ a[2] <= b[2])
\* (k / RAND_MOD) * a, for a a multiple of 1/2
FxMulRand(k, a) ==
    FxNorm((k * a[1]) \div RAND_MOD,
           ((k * a[1]) % RAND_MOD) * (FR \div RAND_MOD) + k * (a[2] \div RAND_MOD))
\* (k / RAND_MOD - 0.5) * a, for a a multiple of 1/RAND_MOD
FxMulCentered(k, a) ==
    LET c == 2 * k - RAND_MOD
        g == a[2] \div (FR \div RAND_MOD)
    IN  FxNorm((c * a[1]) \div (2 * RAND_MOD),
               ((c * a[1]) % (2 * RAND_MOD)) * RAND_MOD + c * g)

(***************************************************************************)
(* GameViewport (src/src/resources.rs)                                     *)
(***************************************************************************)
\* viewport.half_height(): the height is GAME_HEIGHT for the whole session
half_height == GAME_HEIGHT \div 2

(***************************************************************************)
(* spawn_pipe_pair (src/src/systems/pipes.rs)                              *)
(***************************************************************************)
\* (current_score / PIPE_GAP_SCALE_SCORE).min(1.0), in units of
\* 1/PIPE_GAP_SCALE_SCORE
difficulty(current_score) ==
    IF current_score < PIPE_GAP_SCALE_SCORE THEN current_score
    ELSE PIPE_GAP_SCALE_SCORE

gap_min(current_score) ==
    FxAdd(FxInt(PIPE_GAP_START_MIN),
          FxFrac((PIPE_GAP_END - PIPE_GAP_START_MIN) * difficulty(current_score),
                 PIPE_GAP_SCALE_SCORE))

gap_max(current_score) ==
    FxAdd(FxInt(PIPE_GAP_START_MAX),
          FxFrac((PIPE_GAP_END - PIPE_GAP_START_MAX) * difficulty(current_score),
                 PIPE_GAP_SCALE_SCORE))

\* pipe_gap drawn from the START range whatever the difficulty
pipe_gap_start_range(current_score, k1) ==
    FxAdd(FxInt(PIPE_GAP_START_MIN),
          FxMulRand(k1, FxInt(PIPE_GAP_START_MAX - PIPE_GAP_START_MIN)))

\* gap_min + rand_f32() * (gap_max - gap_min), the draw being k1/RAND_MOD
pipe_gap(current_score, k1) ==
    FxAdd(gap_min(current_score),
          FxMulRand(k1, FxSub(gap_max(current_score), gap_min(current_score))))

\* gap_y drawn over the whole window height
gap_y_whole_window(gap, k2) ==
    FxMulCentered(k2, FxInt(WINDOW_HEIGHT))

\* (rand_f32() - 0.5) * (WINDOW_HEIGHT - GROUND_HEIGHT - pipe_gap - 100.0)
gap_y(gap, k2) ==
    FxMulCentered(k2, FxSub(FxInt(WINDOW_HEIGHT - GROUND_HEIGHT), FxAdd(gap, FxInt(GAP_MARGIN))))

\* WINDOW_WIDTH / 2.0 + PIPE_WIDTH
spawn_x == WINDOW_WIDTH \div 2 + PIPE_WIDTH

\* WINDOW_HEIGHT / 2.0 - gap_y - pipe_gap / 2.0
top_pipe_height(gap, gy) ==
    FxSub(FxSub(FxInt(WINDOW_HEIGHT \div 2), gy), FxHalf(gap))

\* bottom_pipe_height without the - GROUND_HEIGHT term
bottom_pipe_height_to_window_bottom(gap, gy) ==
    FxSub(FxAdd(FxInt(WINDOW_HEIGHT \div 2), gy), FxHalf(gap))

\* WINDOW_HEIGHT / 2.0 + gap_y - pipe_gap / 2.0 - GROUND_HEIGHT
bottom_pipe_height(gap, gy) ==
    FxSub(FxSub(FxAdd(FxInt(WINDOW_HEIGHT \div 2), gy), FxHalf(gap)), FxInt(GROUND_HEIGHT))

\* spawn_pipe_pair with Scored(false) on both entities
spawn_pipe_pair_both_scored(current_score, k1, k2) ==
    LET gap == pipe_gap(current_score, k1)
        gy  == gap_y(gap, k2)
        th  == top_pipe_height(gap, gy)
        bh  == bottom_pipe_height(gap, gy)
    IN  << [role |-> "Top", x |-> spawn_x,
            y |-> FxSub(FxInt(WINDOW_HEIGHT \div 2), FxHalf(th)),
            w |-> PIPE_WIDTH, h |-> th, scored |-> <<FALSE>>, gap |-> gap, gap_y |-> gy],
           [role |-> "Bottom", x |-> spawn_x,
            y |-> FxAdd(FxInt(GROUND_HEIGHT - WINDOW_HEIGHT \div 2), FxHalf(bh)),
            w |-> PIPE_WIDTH, h |-> bh, scored |-> <<FALSE>>, gap |-> gap,
            gap_y |-> gy] >>

\* The two entities of one spawn, Top first.  scored is the Scored component:
\* <<>> when the entity has none (Top), <<FALSE>> on the Bottom.  role, gap
\* and gap_y are not components: they record the spawn site and the sampled
\* gap so that properties can name them.
spawn_pipe_pair(current_score, k1, k2) ==
    LET gap == pipe_gap(current_score, k1)
        gy  == gap_y(gap, k2)
        th  == top_pipe_height(gap, gy)
        bh  == bottom_pipe_height(gap, gy)
    IN  << [role |-> "Top", x |-> spawn_x,
            y |-> FxSub(FxInt(WINDOW_HEIGHT \div 2), FxHalf(th)),
            w |-> PIPE_WIDTH, h |-> th, scored |-> <<>>, gap |-> gap, gap_y |-> gy],
           [role |-> "Bottom", x |-> spawn_x,
            y |-> FxAdd(FxInt(GROUND_HEIGHT - WINDOW_HEIGHT \div 2), FxHalf(bh)),
            w |-> PIPE_WIDTH, h |-> bh, scored |-> <<FALSE>>, gap |-> gap,
            gap_y |-> gy] >>

(***************************************************************************)
(* Collision predicates (src/src/systems/collision.rs)                     *)
(***************************************************************************)
\* BIRD_SIZE / 2.0
half_bird == BIRD_SIZE \div 2

check_ground_collision(bird_y) ==
    bird_y - half_bird <= -half_height + GROUND_HEIGHT

check_ceiling_collision(bird_y) ==
    bird_y + half_bird >= half_height

\* an overlap test that counts edges that only touch
check_aabb_collision_touching(ax, ay, size_a, p) ==
    LET half_a   == size_a \div 2
        half_b_w == p.w \div 2
        half_b_h == FxHalf(p.h)
    IN  /\ ax + half_a >= p.x - half_b_w
        /\ ax - half_a <= p.x + half_b_w
        /\ FxLe(FxSub(p.y, half_b_h), FxInt(ay + half_a))
        /\ FxLe(FxInt(ay - half_a), FxAdd(p.y, half_b_h))

\* the bird's square (centre ax, ay, side size_a) against a pipe's rectangle
check_aabb_collision(ax, ay, size_a, p) ==
    LET half_a   == size_a \div 2
        half_b_w == p.w \div 2
        half_b_h == FxHalf(p.h)
    IN  /\ ax + half_a > p.x - half_b_w
        /\ ax - half_a < p.x + half_b_w
        /\ FxLt(FxSub(p.y, half_b_h), FxInt(ay + half_a))
        /\ FxLt(FxInt(ay - half_a), FxAdd(p.y, half_b_h))

check_pipe_collisions(ax, ay, ps) ==
    \E i \in 1..Len(ps) : check_aabb_collision(ax, ay, BIRD_SIZE, ps[i])

(***************************************************************************)
(* State                                                                   *)
(***************************************************************************)
VARIABLES
    state,          \* State<GameState>: "Menu", "Playing" or "GameOver"
    next_state,     \* NextState<GameState>: "Unchanged" or the pending state
    space,          \* keyboard_input.just_pressed(KeyCode::Space) this frame
    dt,             \* time.delta() of this frame, in 1/TIME_DEN s
    bird,           \* Bird.velocity and the bird's Transform (x, y, rotation)
    pipes,          \* the Pipe entities, in spawn order
    spawn_cmds,     \* Commands: entities queued by commands.spawn
    despawn_cmds,   \* Commands: indices of pipes queued by despawn()
    score,          \* Score.0
    score_text,     \* the number shown by the ScoreText entity
    instruction,    \* InstructionText: "start", "hidden" or "game_over"
    timer,          \* PipeSpawnTimer: elapsed (1/TIME_DEN s), times_finished
    death_events,   \* DeathEvent messages written this frame (positions)
    score_events,   \* number of ScoreEvent messages written this frame
    ran,            \* systems of the Update schedule that ran this frame
    retired,        \* history: pipes destroyed by pipe_movement with Scored(true)
                    \* since the last restart
    ticks,          \* frames explored so far
    flap_msgs,      \* Messages<FlapEvent>: the messages of both buffers
    score_msgs,     \* Messages<ScoreEvent>: age (buffer rotations seen) and
                    \* the readers whose cursor has passed the message
    death_msgs,     \* Messages<DeathEvent>: position, age and readers
    shake,          \* ScreenShake: duration, intensity, elapsed (1/EFFECT_DEN s)
    camera,         \* translation of MainCamera: "zero" or "offset"
    screen_flash,   \* ScreenFlashState
    flash_sprite,   \* Sprite.color of the ScreenFlash overlay
    edge_flash,     \* EdgeFlashState
    edge_sprite,    \* Sprite.color of the EdgeFlash strips of multiplier 1
    particle_cmds,  \* Commands: Particle entities queued by commands.spawn
    particles,      \* the Particle entities
    pop_cmds,       \* Commands: ScorePopAnimation inserts queued this frame
    score_pop,      \* ScorePopAnimation of the ScoreText entity, or <<>>
    squash_cmds,    \* Commands: BirdSquashStretch inserts queued this frame
    bird_squash,    \* BirdSquashStretch of the Bird entity, or <<>>
    call            \* arguments and result of a function called on its own

vars == <<state, next_state, space, dt, bird, pipes, spawn_cmds, despawn_cmds,
          score, score_text, instruction, timer, death_events, score_events,
          ran, retired, ticks, flap_msgs, score_msgs, death_msgs, shake,
          camera, screen_flash, flash_sprite, edge_flash, edge_sprite,
          particle_cmds, particles, pop_cmds, score_pop, squash_cmds,
          bird_squash, call>>

\* the three Messages resources
message_vars == <<flap_msgs, score_msgs, death_msgs>>

\* the effect resources, the entities they render to and the effect entities
effect_vars == <<shake, camera, screen_flash, flash_sprite, edge_flash,
                 edge_sprite, particle_cmds, particles, pop_cmds, score_pop,
                 squash_cmds, bird_squash>>

\* ScreenShake::default()
ScreenShake == [duration |-> 0, intensity |-> 0, elapsed |-> 0]

\* ScreenFlashState::default() and EdgeFlashState::default()
FlashState == [duration |-> 0, total_duration |-> 0, color |-> "black", max_alpha |-> 0]

\* Color::srgba(0.0, 0.0, 0.0, 0.0), the colour the overlays are spawned with
TRANSPARENT == [color |-> "black", alpha |-> 0]

\* the effect state after Startup: default resources, no message, no particle
effects_idle ==
    /\ flap_msgs = <<>>
    /\ score_msgs = <<>>
    /\ death_msgs = <<>>
    /\ shake = ScreenShake
    /\ camera = "zero"
    /\ screen_flash = FlashState
    /\ flash_sprite = TRANSPARENT
    /\ edge_flash = FlashState
    /\ edge_sprite = TRANSPARENT
    /\ particle_cmds = <<>>
    /\ particles = <<>>
    /\ pop_cmds = 0
    /\ score_pop = <<>>
    /\ squash_cmds = 0
    /\ bird_squash = <<>>

\* no function is called on its own
no_call == [fn |-> "none"]

\* spawn_bird: Transform::from_xyz(-50.0, 0.0, 1.0), Bird::default()
spawn_bird ==
    [velocity |-> 0, x |-> BIRD_START_X, y |-> BIRD_START_Y, rotation |-> 0]

\* Timer::from_seconds(PIPE_SPAWN_TIME, TimerMode::Repeating)
PipeSpawnTimer == [elapsed |-> 0, times_finished |-> 0]

\* the gameplay tuple without update_score
PlayingSystems_without_score ==
    {"bird_flap", "bird_physics", "bird_tilt", "pipe_movement", "pipe_spawner",
     "check_collisions"}

\* the gameplay tuple of main.rs
PlayingSystems ==
    {"bird_flap", "bird_physics", "bird_tilt", "pipe_movement", "pipe_spawner",
     "check_collisions", "update_score"}

\* the schedule with the run condition of the gameplay tuple left out
Scheduled_ungated(s) ==
    CASE s = "Menu"     -> {"start_game"} \cup PlayingSystems
      [] s = "Playing"  -> PlayingSystems
      [] s = "GameOver" -> {"restart_game"} \cup PlayingSystems

\* the schedule with pipe_movement outside the gated tuple
Scheduled_movement_always(s) ==
    CASE s = "Menu"     -> {"start_game", "pipe_movement"}
      [] s = "Playing"  -> PlayingSystems
      [] s = "GameOver" -> {"restart_game", "pipe_movement"}

\* the systems whose run condition holds in game state s
Scheduled(s) ==
    CASE s = "Menu"     -> {"start_game"}
      [] s = "Playing"  -> PlayingSystems
      [] s = "GameOver" -> {"restart_game"}

Init ==
    /\ state = "Menu"
    /\ next_state = "Unchanged"
    /\ space \in BOOLEAN
    /\ dt \in DtSet
    /\ bird = spawn_bird
    /\ pipes = <<>>
    /\ spawn_cmds = <<>>
    /\ despawn_cmds = {}
    /\ score = 0
    /\ score_text = 0
    /\ instruction = "start"
    /\ timer = PipeSpawnTimer
    /\ death_events = <<>>
    /\ score_events = 0
    /\ ran = {}
    /\ retired = 0
    /\ ticks = 1
    /\ effects_idle
    /\ call = no_call

\* a system runs once per frame, when its run condition holds
Runs(sys) == sys \in Scheduled(state) /\ sys \notin ran /\ ran' = ran \cup {sys}

(***************************************************************************)
(* Menu and GameOver systems (src/src/systems/game.rs)                     *)
(***************************************************************************)
\* start_game that also gives the actor the impulse of a flap
start_game_with_flap ==
    /\ Runs("start_game")
    /\ IF space
       THEN /\ next_state' = "Playing" /\ instruction' = "hidden"
            /\ bird' = [bird EXCEPT !.velocity = FLAP_STRENGTH]
       ELSE UNCHANGED <<next_state, instruction, bird>>
    /\ UNCHANGED <<state, space, dt, pipes, spawn_cmds, despawn_cmds, score,
                   score_text, timer, death_events, score_events, retired, ticks>>
    /\ UNCHANGED <<message_vars, effect_vars, call>>

start_game ==
    /\ Runs("start_game")
    /\ IF space
       THEN next_state' = "Playing" /\ instruction' = "hidden"
       ELSE UNCHANGED <<next_state, instruction>>
    /\ UNCHANGED <<state, space, dt, bird, pipes, spawn_cmds, despawn_cmds, score,
                   score_text, timer, death_events, score_events, retired, ticks>>
    /\ UNCHANGED <<message_vars, effect_vars, call>>

\* restart_game without its just_pressed test
restart_requested_always(pressed) == TRUE

\* keyboard_input.just_pressed(KeyCode::Space), as restart_game reads it
restart_requested(pressed) == pressed

reset_bird(b) ==
    [b EXCEPT !.velocity = 0, !.x = BIRD_START_X, !.y = BIRD_START_Y, !.rotation = 0]

\* restart_game without the despawn loop
despawn_all_pipes_none(ps) == {}

\* commands.entity(entity).despawn() for every pipe of the query
despawn_all_pipes(ps) == 1..Len(ps)

restart_game ==
    /\ Runs("restart_game")
    /\ IF restart_requested(space)
       THEN /\ bird' = reset_bird(bird)
            /\ despawn_cmds' = despawn_cmds \cup despawn_all_pipes(pipes)
            /\ score' = 0
            /\ score_text' = 0
            /\ instruction' = "hidden"
            /\ next_state' = "Playing"
       ELSE UNCHANGED <<bird, despawn_cmds, score, score_text, instruction, next_state>>
    /\ UNCHANGED <<state, space, dt, pipes, spawn_cmds, timer, death_events,
                   score_events, retired, ticks>>
    /\ UNCHANGED <<message_vars, effect_vars, call>>

(***************************************************************************)
(* Bird systems (src/src/systems/bird.rs)                                  *)
(***************************************************************************)
\* if just_pressed(Space): bird.velocity = FLAP_STRENGTH
flap_step_additive(b, pressed) ==
    IF pressed THEN [b EXCEPT !.velocity = b.velocity + FLAP_STRENGTH] ELSE b

flap_step(b, pressed) ==
    IF pressed THEN [b EXCEPT !.velocity = FLAP_STRENGTH] ELSE b

bird_flap ==
    /\ Runs("bird_flap")
    /\ bird' = flap_step(bird, space)
    /\ UNCHANGED <<state, next_state, space, dt, pipes, spawn_cmds, despawn_cmds,
                   score, score_text, instruction, timer, death_events,
                   score_events, retired, ticks>>
    /\ UNCHANGED <<message_vars, effect_vars, call>>

\* velocity += GRAVITY * dt; y += velocity * dt, with d in 1/TIME_DEN s
physics_step_explicit(b, d) ==
    [b EXCEPT !.velocity = b.velocity + (GRAVITY * d) \div TIME_DEN,
              !.y = b.y + (b.velocity * d) \div TIME_DEN]

physics_step(b, d) ==
    LET v == b.velocity + (GRAVITY * d) \div TIME_DEN
    IN  [b EXCEPT !.velocity = v, !.y = b.y + (v * d) \div TIME_DEN]

\* bird_physics with a gravity that points upwards
bird_physics_rising ==
    /\ Runs("bird_physics")
    /\ bird' = [bird EXCEPT !.velocity = @ - (GRAVITY * dt) \div TIME_DEN,
                            !.y = @ + ((bird.velocity - (GRAVITY * dt) \div TIME_DEN) * dt)
                                          \div TIME_DEN]
    /\ UNCHANGED <<state, next_state, space, dt, pipes, spawn_cmds, despawn_cmds,
                   score, score_text, instruction, timer, death_events,
                   score_events, retired, ticks>>
    /\ UNCHANGED <<message_vars, effect_vars, call>>

bird_physics ==
    /\ Runs("bird_physics")
    /\ bird' = physics_step(bird, dt)
    /\ UNCHANGED <<state, next_state, space, dt, pipes, spawn_cmds, despawn_cmds,
                   score, score_text, instruction, timer, death_events,
                   score_events, retired, ticks>>
    /\ UNCHANGED <<message_vars, effect_vars, call>>

\* MAX_TILT_UP = 0.5 and MAX_TILT_DOWN = -1.2, in 1/TILT_DEN radian
MAX_TILT_UP == (5 * TILT_DEN) \div 10
MAX_TILT_DOWN == (-12 * TILT_DEN) \div 10

Clamp(v, lo, hi) == IF v < lo THEN lo ELSE IF v > hi THEN hi ELSE v

target_tilt(velocity) ==
    IF velocity > 0
    THEN (velocity * MAX_TILT_UP) \div FLAP_STRENGTH
    ELSE Clamp((velocity * TILT_DEN) \div TILT_FALL_DIVISOR, MAX_TILT_DOWN, 0)

\* current + (target - current) * TILT_SPEED * dt.  The rotation is read back
\* with to_euler and stored with from_rotation_z; the angle stays inside
\* [MAX_TILT_DOWN, MAX_TILT_UP] for the frame times of DtSet, where that round
\* trip returns the angle itself.
tilt_step(b, d) ==
    [b EXCEPT !.rotation =
        b.rotation + ((target_tilt(b.velocity) - b.rotation) * TILT_SPEED * d) \div TIME_DEN]

bird_tilt ==
    /\ Runs("bird_tilt")
    /\ bird' = tilt_step(bird, dt)
    /\ UNCHANGED <<state, next_state, space, dt, pipes, spawn_cmds, despawn_cmds,
                   score, score_text, instruction, timer, death_events,
                   score_events, retired, ticks>>
    /\ UNCHANGED <<message_vars, effect_vars, call>>

(***************************************************************************)
(* Pipe systems (src/src/systems/pipes.rs)                                 *)
(***************************************************************************)
\* PIPE_SPAWN_TIME in 1/TIME_DEN s
timer_duration == PIPE_SPAWN_TIME * TIME_DEN

\* Timer::tick of a repeating timer: times_finished_this_tick is the number of
\* whole durations completed by this tick, elapsed keeps the remainder
timer_tick(t, d) ==
    LET e == t.elapsed + d
    IN  IF e >= timer_duration
        THEN [elapsed |-> e % timer_duration, times_finished |-> e \div timer_duration]
        ELSE [elapsed |-> e, times_finished |-> 0]

\* a timer that counts as finished while it runs
just_finished_while_running(t) == t.elapsed > 0

\* Timer::just_finished
just_finished(t) == t.times_finished > 0

pipe_spawner ==
    /\ Runs("pipe_spawner")
    /\ IF state # "Playing"
       THEN UNCHANGED <<timer, spawn_cmds>>
       ELSE /\ timer' = timer_tick(timer, dt)
            /\ IF just_finished(timer')
               THEN \E k1 \in RandDraws, k2 \in RandDraws :
                        spawn_cmds' = spawn_cmds \o spawn_pipe_pair(score, k1, k2)
               ELSE UNCHANGED spawn_cmds
    /\ UNCHANGED <<state, next_state, space, dt, bird, pipes, despawn_cmds, score,
                   score_text, instruction, death_events, score_events, retired, ticks>>
    /\ UNCHANGED <<message_vars, effect_vars, call>>

\* a scroll that moves the Top pipes only
move_pipe_top_only(p, d) ==
    IF p.role = "Top" THEN [p EXCEPT !.x = p.x - (WORLD_SCROLL_SPEED * d) \div TIME_DEN]
    ELSE p

\* translation.x -= WORLD_SCROLL_SPEED * dt
move_pipe(p, d) == [p EXCEPT !.x = p.x - (WORLD_SCROLL_SPEED * d) \div TIME_DEN]

\* off screen as soon as the centre passes the left window edge
off_screen_window_edge(p) == p.x < -(WINDOW_WIDTH \div 2)

\* translation.x < -WINDOW_WIDTH / 2.0 - PIPE_WIDTH
off_screen(p) == p.x < -(WINDOW_WIDTH \div 2) - PIPE_WIDTH

pipe_movement ==
    /\ Runs("pipe_movement")
    /\ pipes' = [i \in 1..Len(pipes) |-> move_pipe(pipes[i], dt)]
    /\ despawn_cmds' = despawn_cmds \cup {i \in 1..Len(pipes) : off_screen(pipes'[i])}
    /\ UNCHANGED <<state, next_state, space, dt, bird, spawn_cmds, score, score_text,
                   instruction, timer, death_events, score_events, retired, ticks>>
    /\ UNCHANGED <<message_vars, effect_vars, call>>

(***************************************************************************)
(* check_collisions (src/src/systems/collision.rs)                         *)
(***************************************************************************)
\* check_collisions without the return after each trigger_game_over
game_over_calls_no_return(b, ps) ==
    (IF check_ground_collision(b.y) THEN << <<b.x, b.y>> >> ELSE <<>>)
    \o (IF check_ceiling_collision(b.y) THEN << <<b.x, b.y>> >> ELSE <<>>)
    \o (IF check_pipe_collisions(b.x, b.y, ps) THEN << <<b.x, b.y>> >> ELSE <<>>)

\* The calls of trigger_game_over made by one run of check_collisions, each
\* with the bird position it is given: the ground, ceiling and pipe checks
\* are tried in this order and the first hit returns.
game_over_calls(b, ps) ==
    IF check_ground_collision(b.y) THEN << <<b.x, b.y>> >>
    ELSE IF check_ceiling_collision(b.y) THEN << <<b.x, b.y>> >>
    ELSE IF check_pipe_collisions(b.x, b.y, ps) THEN << <<b.x, b.y>> >>
    ELSE <<>>

\* MessageWriter::write: the message enters the newer buffer, read by nobody
written(msg) == [msg EXCEPT !.age = 0, !.read_by = {}]

\* death_events.write(DeathEvent { position }) for each call
death_writes(calls) ==
    [i \in 1..Len(calls) |-> written([position |-> calls[i], age |-> 0, read_by |-> {}])]

\* trigger_game_over: next_state.set(GameOver), one DeathEvent, the text shown
check_collisions ==
    /\ Runs("check_collisions")
    /\ LET calls == game_over_calls(bird, pipes)
       IN  IF calls # <<>>
           THEN /\ next_state' = "GameOver"
                /\ death_events' = death_events \o calls
                /\ death_msgs' = death_msgs \o death_writes(calls)
                /\ instruction' = "game_over"
           ELSE UNCHANGED <<next_state, death_events, death_msgs, instruction>>
    /\ UNCHANGED <<state, space, dt, bird, pipes, spawn_cmds, despawn_cmds, score,
                   score_text, timer, score_events, retired, ticks>>
    /\ UNCHANGED <<flap_msgs, score_msgs, effect_vars, call>>

(***************************************************************************)
(* update_score (src/src/systems/score.rs)                                 *)
(***************************************************************************)
\* update_score without the !scored.0 test
score_hits_any_flag(ps, bird_x) ==
    {i \in 1..Len(ps) : ps[i].scored # <<>> /\ ps[i].x < bird_x}

\* the pipes of the (Transform, Scored) query that count in this run
score_hits(ps, bird_x) ==
    {i \in 1..Len(ps) : ps[i].scored = <<FALSE>> /\ ps[i].x < bird_x}

\* score_events.write(ScoreEvent), once per pipe that counts
score_writes(n) == [i \in 1..n |-> written([age |-> 0, read_by |-> {}])]

\* update_score that counts nothing once the frame has a DeathEvent
update_score_unless_dead ==
    /\ Runs("update_score")
    /\ LET hits == IF death_events # <<>> THEN {} ELSE score_hits(pipes, bird.x)
       IN  /\ pipes' = [i \in 1..Len(pipes) |->
                          IF i \in hits THEN [pipes[i] EXCEPT !.scored = <<TRUE>>]
                          ELSE pipes[i]]
           /\ score' = score + Cardinality(hits)
           /\ score_events' = score_events + Cardinality(hits)
           /\ score_msgs' = score_msgs \o score_writes(Cardinality(hits))
           /\ score_text' = IF hits # {} THEN score' ELSE score_text
    /\ UNCHANGED <<state, next_state, space, dt, bird, spawn_cmds, despawn_cmds,
                   instruction, timer, death_events, retired, ticks>>
    /\ UNCHANGED <<flap_msgs, death_msgs, effect_vars, call>>

update_score ==
    /\ Runs("update_score")
    /\ LET hits == score_hits(pipes, bird.x)
       IN  /\ pipes' = [i \in 1..Len(pipes) |->
                          IF i \in hits THEN [pipes[i] EXCEPT !.scored = <<TRUE>>]
                          ELSE pipes[i]]
           /\ score' = score + Cardinality(hits)
           /\ score_events' = score_events + Cardinality(hits)
           /\ score_msgs' = score_msgs \o score_writes(Cardinality(hits))
           /\ score_text' = IF hits # {} THEN score' ELSE score_text
    /\ UNCHANGED <<state, next_state, space, dt, bird, spawn_cmds, despawn_cmds,
                   instruction, timer, death_events, retired, ticks>>
    /\ UNCHANGED <<flap_msgs, death_msgs, effect_vars, call>>

(***************************************************************************)
(* Effect resources (src/src/resources.rs) and effect systems              *)
(* (src/src/systems/effects.rs)                                            *)
(***************************************************************************)
\* time.delta_secs() in 1/EFFECT_DEN s
effect_dt(d) == d * (EFFECT_DEN \div TIME_DEN)

\* ScreenShake::is_active, ScreenFlashState::is_active, EdgeFlashState::is_active
is_active(r) == r.duration > 0

\* ScreenShake::trigger
shake_trigger(sh, duration, intensity) ==
    [sh EXCEPT !.duration = duration, !.intensity = intensity, !.elapsed = 0]

\* ScreenFlashState::trigger and EdgeFlashState::trigger
flash_trigger(f, duration, color, alpha) ==
    [f EXCEPT !.duration = duration, !.total_duration = duration,
              !.color = color, !.max_alpha = alpha]

\* the alpha as a fraction of the time already elapsed
current_alpha_elapsed(f) ==
    IF f.total_duration <= 0 THEN 0
    ELSE ((f.total_duration - f.duration) * f.max_alpha) \div f.total_duration

\* ScreenFlashState::current_alpha and EdgeFlashState::current_alpha
current_alpha(f) ==
    IF f.total_duration <= 0 THEN 0
    ELSE (f.duration * f.max_alpha) \div f.total_duration

\* a schedule whose decay systems run only while the game is played
EffectScheduled_decay_in_play(s) ==
    CASE s = "Menu"     -> {}
      [] s = "Playing"  -> {"update_screen_shake", "update_screen_flash",
                            "update_edge_flash", "spawn_flap_particles",
                            "trigger_bird_squash", "trigger_score_pop",
                            "trigger_score_effects"}
      [] s = "GameOver" -> {"spawn_death_particles", "trigger_death_effects"}

\* the effect tuples of main.rs and the always-running decay systems of the
\* three effect resources
EffectScheduled(s) ==
    {"update_screen_shake", "update_screen_flash", "update_edge_flash"} \cup
    CASE s = "Menu"     -> {}
      [] s = "Playing"  -> {"spawn_flap_particles", "trigger_bird_squash",
                            "trigger_score_pop", "trigger_score_effects"}
      [] s = "GameOver" -> {"spawn_death_particles", "trigger_death_effects"}

\* an effect system runs once per frame, when its run condition holds
EffectRuns(sys) ==
    sys \in EffectScheduled(state) /\ sys \notin ran /\ ran' = ran \cup {sys}

\* a reader that starts over from the oldest message at each run
unread_all(msgs, reader) == 1..Len(msgs)

\* MessageReader::read: the messages behind which the reader's cursor is not yet
unread(msgs, reader) == {i \in 1..Len(msgs) : reader \notin msgs[i].read_by}

\* the cursor of the reader moved past every message
mark_read(msgs, reader) ==
    [i \in 1..Len(msgs) |-> [msgs[i] EXCEPT !.read_by = @ \cup {reader}]]

\* significand bits of an f32
MANTISSA_BITS == 24

\* an f32 in (0, 1] is a pair [m, e] that stands for m / 2^(MANTISSA_BITS + e),
\* and 0.0 is [m |-> 0, e |-> 0]
\* k as f32 / n as f32, rounded to the nearest f32 (ties to even), for
\* 0 <= k <= n < 2^MANTISSA_BITS: e is the least exponent with
\* k / n >= 2^-(e + 1), and the significand comes from MANTISSA_BITS + e
\* steps of the binary long division
f32_div(k, n) ==
    LET RECURSIVE exponent_of(_, _)
        exponent_of(j, from) ==
            IF 2 * j >= n THEN from ELSE exponent_of(2 * j, from + 1)
        RECURSIVE long_division(_, _, _)
        long_division(r, q, steps) ==
            IF steps = 0 THEN <<q, r>>
            ELSE long_division((2 * r) % n, 2 * q + (2 * r) \div n, steps - 1)
        e  == exponent_of(k, 0)
        qr == long_division(k, 0, MANTISSA_BITS + e)
        up == 2 * qr[2] > n \/ (2 * qr[2] = n /\ qr[1] % 2 = 1)
    IN  IF k = 0 THEN [m |-> 0, e |-> 0]
        ELSE [m |-> IF up THEN qr[1] + 1 ELSE qr[1], e |-> e]

\* a particle count that rounds the scaled draw to the nearest integer
flap_particle_count_rounded(k) ==
    LET v == f32_div(k, RAND_MOD)
        n == FLAP_PARTICLE_COUNT_MAX - FLAP_PARTICLE_COUNT_MIN + 1
    IN  FLAP_PARTICLE_COUNT_MIN
            + (((2 * v.m * n) \div 2^MANTISSA_BITS) \div 2^v.e + 1) \div 2

\* particle_count for the draw k/RAND_MOD of rand_f32: the f32 product
\* rand_f32() * 4 as f32 is exact (a power of two), `as u32` truncates it
flap_particle_count(k) ==
    LET v == f32_div(k, RAND_MOD)
        n == FLAP_PARTICLE_COUNT_MAX - FLAP_PARTICLE_COUNT_MIN + 1
    IN  FLAP_PARTICLE_COUNT_MIN + ((v.m * n) \div 2^MANTISSA_BITS) \div 2^v.e

\* the entities spawn_flap_particles queues for one FlapEvent
flap_burst(event, k) ==
    [n \in 1..flap_particle_count(k) |->
        [kind |-> "FlapParticle", position |-> event.position,
         world_velocity |-> <<-WORLD_SCROLL_SPEED, 0>>]]

RECURSIVE flap_bursts(_, _, _, _)
\* the bursts of the messages of msgs from index i on that are in todo, the
\* count of message i drawn as ks[i]
flap_bursts(msgs, todo, ks, i) ==
    IF i > Len(msgs) THEN <<>>
    ELSE (IF i \in todo THEN flap_burst(msgs[i], ks[i]) ELSE <<>>)
         \o flap_bursts(msgs, todo, ks, i + 1)

spawn_flap_particles ==
    /\ EffectRuns("spawn_flap_particles")
    /\ \E ks \in [1..Len(flap_msgs) -> RandDraws] :
          particle_cmds' = particle_cmds \o
              flap_bursts(flap_msgs, unread(flap_msgs, "spawn_flap_particles"), ks, 1)
    /\ flap_msgs' = mark_read(flap_msgs, "spawn_flap_particles")
    /\ UNCHANGED <<state, next_state, space, dt, bird, pipes, spawn_cmds,
                   despawn_cmds, score, score_text, instruction, timer,
                   death_events, score_events, retired, ticks>>
    /\ UNCHANGED <<score_msgs, death_msgs, shake, camera, screen_flash,
                   flash_sprite, edge_flash, edge_sprite, particles, pop_cmds,
                   score_pop, squash_cmds, bird_squash, call>>

trigger_bird_squash ==
    /\ EffectRuns("trigger_bird_squash")
    /\ squash_cmds' = squash_cmds + Cardinality(unread(flap_msgs, "trigger_bird_squash"))
    /\ flap_msgs' = mark_read(flap_msgs, "trigger_bird_squash")
    /\ UNCHANGED <<state, next_state, space, dt, bird, pipes, spawn_cmds,
                   despawn_cmds, score, score_text, instruction, timer,
                   death_events, score_events, retired, ticks>>
    /\ UNCHANGED <<score_msgs, death_msgs, shake, camera, screen_flash,
                   flash_sprite, edge_flash, edge_sprite, particle_cmds,
                   particles, pop_cmds, score_pop, bird_squash, call>>

\* the entities spawn_death_particles queues for one DeathEvent
death_burst(event) ==
    [k \in 1..DEATH_PARTICLE_COUNT |->
        [kind |-> "DeathParticle", position |-> event.position,
         world_velocity |-> <<0, 0>>]]

RECURSIVE death_bursts(_, _, _)
\* the bursts of the messages of msgs from index i on that are in todo
death_bursts(msgs, todo, i) ==
    IF i > Len(msgs) THEN <<>>
    ELSE (IF i \in todo THEN death_burst(msgs[i]) ELSE <<>>)
         \o death_bursts(msgs, todo, i + 1)

spawn_death_particles ==
    /\ EffectRuns("spawn_death_particles")
    /\ particle_cmds' = particle_cmds \o
           death_bursts(death_msgs, unread(death_msgs, "spawn_death_particles"), 1)
    /\ death_msgs' = mark_read(death_msgs, "spawn_death_particles")
    /\ UNCHANGED <<state, next_state, space, dt, bird, pipes, spawn_cmds,
                   despawn_cmds, score, score_text, instruction, timer,
                   death_events, score_events, retired, ticks>>
    /\ UNCHANGED <<flap_msgs, score_msgs, shake, camera, screen_flash,
                   flash_sprite, edge_flash, edge_sprite, particles, pop_cmds,
                   score_pop, squash_cmds, bird_squash, call>>

trigger_death_effects ==
    /\ EffectRuns("trigger_death_effects")
    /\ IF unread(death_msgs, "trigger_death_effects") # {}
       THEN /\ shake' = shake_trigger(shake, SCREEN_SHAKE_DURATION, SCREEN_SHAKE_INTENSITY)
            /\ screen_flash' = flash_trigger(screen_flash, DEATH_FLASH_DURATION,
                                             DEATH_FLASH_COLOR, DEATH_FLASH_ALPHA)
       ELSE UNCHANGED <<shake, screen_flash>>
    /\ death_msgs' = mark_read(death_msgs, "trigger_death_effects")
    /\ UNCHANGED <<state, next_state, space, dt, bird, pipes, spawn_cmds,
                   despawn_cmds, score, score_text, instruction, timer,
                   death_events, score_events, retired, ticks>>
    /\ UNCHANGED <<flap_msgs, score_msgs, camera, flash_sprite, edge_flash,
                   edge_sprite, particle_cmds, particles, pop_cmds, score_pop, squash_cmds, bird_squash, call>>

trigger_score_pop ==
    /\ EffectRuns("trigger_score_pop")
    /\ pop_cmds' = pop_cmds + Cardinality(unread(score_msgs, "trigger_score_pop"))
    /\ score_msgs' = mark_read(score_msgs, "trigger_score_pop")
    /\ UNCHANGED <<state, next_state, space, dt, bird, pipes, spawn_cmds,
                   despawn_cmds, score, score_text, instruction, timer,
                   death_events, score_events, retired, ticks>>
    /\ UNCHANGED <<flap_msgs, death_msgs, shake, camera, screen_flash,
                   flash_sprite, edge_flash, edge_sprite, particle_cmds,
                   particles, score_pop, squash_cmds, bird_squash, call>>

trigger_score_effects ==
    /\ EffectRuns("trigger_score_effects")
    /\ IF unread(score_msgs, "trigger_score_effects") # {}
       THEN edge_flash' = flash_trigger(edge_flash, SCORE_FLASH_DURATION,
                                        SCORE_FLASH_COLOR, SCORE_FLASH_ALPHA)
       ELSE UNCHANGED edge_flash
    /\ score_msgs' = mark_read(score_msgs, "trigger_score_effects")
    /\ UNCHANGED <<state, next_state, space, dt, bird, pipes, spawn_cmds,
                   despawn_cmds, score, score_text, instruction, timer,
                   death_events, score_events, retired, ticks>>
    /\ UNCHANGED <<flap_msgs, death_msgs, shake, camera, screen_flash,
                   flash_sprite, edge_sprite, particle_cmds, particles, pop_cmds,
                   score_pop, squash_cmds, bird_squash, call>>

\* the camera gets the computed offset while the shake lasts and (0, 0) in
\* the run in which the duration reaches 0
update_screen_shake ==
    /\ EffectRuns("update_screen_shake")
    /\ IF ~is_active(shake)
       THEN UNCHANGED <<shake, camera>>
       ELSE /\ shake' = [shake EXCEPT !.elapsed = @ + effect_dt(dt),
                                      !.duration = @ - effect_dt(dt)]
            /\ camera' = IF shake'.duration > 0 THEN "offset" ELSE "zero"
    /\ UNCHANGED <<state, next_state, space, dt, bird, pipes, spawn_cmds,
                   despawn_cmds, score, score_text, instruction, timer,
                   death_events, score_events, retired, ticks>>
    /\ UNCHANGED <<message_vars, screen_flash, flash_sprite, edge_flash,
                   edge_sprite, particle_cmds, particles, pop_cmds, score_pop, squash_cmds, bird_squash, call>>

\* one run of update_screen_flash or update_edge_flash on a state and the
\* sprite it renders to (the strips of alpha_multiplier 1 for the edges)
flash_update(f, d) ==
    IF ~is_active(f)
    THEN [state |-> f, sprite |-> TRANSPARENT]
    ELSE LET g == [f EXCEPT !.duration = @ - effect_dt(d)]
         IN  [state |-> g, sprite |-> [color |-> g.color, alpha |-> current_alpha(g)]]

update_screen_flash ==
    /\ EffectRuns("update_screen_flash")
    /\ screen_flash' = flash_update(screen_flash, dt).state
    /\ flash_sprite' = flash_update(screen_flash, dt).sprite
    /\ UNCHANGED <<state, next_state, space, dt, bird, pipes, spawn_cmds,
                   despawn_cmds, score, score_text, instruction, timer,
                   death_events, score_events, retired, ticks>>
    /\ UNCHANGED <<message_vars, shake, camera, edge_flash, edge_sprite,
                   particle_cmds, particles, pop_cmds, score_pop, squash_cmds, bird_squash, call>>

update_edge_flash ==
    /\ EffectRuns("update_edge_flash")
    /\ edge_flash' = flash_update(edge_flash, dt).state
    /\ edge_sprite' = flash_update(edge_flash, dt).sprite
    /\ UNCHANGED <<state, next_state, space, dt, bird, pipes, spawn_cmds,
                   despawn_cmds, score, score_text, instruction, timer,
                   death_events, score_events, retired, ticks>>
    /\ UNCHANGED <<message_vars, shake, camera, screen_flash, flash_sprite,
                   particle_cmds, particles, pop_cmds, score_pop, squash_cmds, bird_squash, call>>

(***************************************************************************)
(* Frame boundary (Bevy's Main schedule around Update)                     *)
(***************************************************************************)
RECURSIVE Keep(_, _, _)
\* the entities of ps, from index i on, that are not queued for despawn
Keep(ps, gone, i) ==
    IF i > Len(ps) THEN <<>>
    ELSE (IF i \in gone THEN <<>> ELSE <<ps[i]>>) \o Keep(ps, gone, i + 1)

\* the command queue of a frame applied at the end of Update
apply_deferred(ps, gone, spawned) == Keep(ps, gone, 1) \o spawned

\* StateTransition: the pending NextState becomes the state
transition(s, pending) == IF pending = "Unchanged" THEN s ELSE pending

\* Messages::update: the older buffer is cleared and the buffers are swapped
rotate(msgs) ==
    LET kept == SelectSeq(msgs, LAMBDA m : m.age = 0)
    IN  [i \in 1..Len(kept) |-> [kept[i] EXCEPT !.age = 1]]

\* message_update_system, in First of the next frame: it rotates the buffers
\* if a fixed update has run since the last rotation, which the frame time d
\* of the frame that ends decides (1/TIME_DEN s is longer than the fixed
\* timestep of 1/64 s)
message_update(msgs, d) == IF d > 0 THEN rotate(msgs) ELSE msgs

\* the end of Update and the start of the next frame: the commands are
\* applied, the pending state becomes the state, the message buffers are
\* updated, the next frame's input and frame time are read
end_of_frame ==
    /\ pipes' = apply_deferred(pipes, despawn_cmds, spawn_cmds)
    /\ spawn_cmds' = <<>>
    /\ despawn_cmds' = {}
    /\ particles' = particles \o particle_cmds
    /\ particle_cmds' = <<>>
    /\ score_pop' = IF pop_cmds > 0
                    THEN <<[timer |-> 0, duration |-> SCORE_POP_DURATION]>>
                    ELSE score_pop
    /\ pop_cmds' = 0
    /\ bird_squash' = IF squash_cmds > 0
                      THEN <<[timer |-> 0, duration |-> FLAP_SQUASH_DURATION,
                              is_squash |-> TRUE]>>
                      ELSE bird_squash
    /\ squash_cmds' = 0
    /\ state' = transition(state, next_state)
    /\ next_state' = "Unchanged"
    /\ death_events' = <<>>
    /\ score_events' = 0
    /\ flap_msgs' = message_update(flap_msgs, dt)
    /\ score_msgs' = message_update(score_msgs, dt)
    /\ death_msgs' = message_update(death_msgs, dt)
    /\ space' \in BOOLEAN
    /\ dt' \in DtSet
    /\ ran' = {}
    /\ retired' = IF state = "Playing"
                  THEN retired + Cardinality({i \in despawn_cmds : pipes[i].scored = <<TRUE>>})
                  ELSE IF next_state = "Playing" THEN 0 ELSE retired
    /\ ticks' = ticks + 1
    /\ UNCHANGED <<bird, score, score_text, instruction, timer, shake, camera,
                   screen_flash, flash_sprite, edge_flash, edge_sprite, call>>

\* every scheduled system has run: the commands are applied, then the next
\* frame begins (messages of the frame dropped from the write buffer, input
\* read, pending state applied, frame time measured)
frame ==
    /\ ran = Scheduled(state)
    /\ ticks < MaxTicks
    /\ end_of_frame

Next ==
    \/ start_game
    \/ restart_game
    \/ bird_flap
    \/ bird_physics
    \/ bird_tilt
    \/ pipe_spawner
    \/ pipe_movement
    \/ check_collisions
    \/ update_score
    \/ frame

Spec == Init /\ [][Next]_vars

(***************************************************************************)
(* A game in progress.  PlaySpec starts in the first Playing frame after   *)
(* Space was pressed in the Menu frame and first plays WarmUpFrames frames *)
(* of frame time 1/TIME_DEN s, Space pressed in the frames of WarmUpFlaps, *)
(* the systems of a frame run in the order of the tuple in main.rs and     *)
(* every rand_f32 draw 0.  These frames are numbered by ticks from         *)
(* 1 - WarmUpFrames to 0.  They leave the first pipe pair next to the bird *)
(* and the second one just spawned, which the frames of MaxTicks from Init *)
(* do not reach; from ticks = 1 on, inputs, frame times, draws and the     *)
(* order of the systems are free as in Spec.                               *)
(***************************************************************************)
WarmUpFrames == 2 * PIPE_SPAWN_TIME * TIME_DEN
WarmUpFlaps == {4, 8, 11, 14, 15, 19}

\* the number of the warm-up frame that begins at tick count t
warm_up_frame(t) == t + WarmUpFrames

\* one Playing frame on a record of the game: bird_flap, bird_physics,
\* bird_tilt, pipe_movement, pipe_spawner, check_collisions, update_score,
\* then the commands of the frame; calls are the trigger_game_over calls of
\* check_collisions and hits the pipes counted by update_score
playing_frame(g, pressed, d, k1, k2) ==
    LET b       == tilt_step(physics_step(flap_step(g.bird, pressed), d), d)
        moved   == [i \in 1..Len(g.pipes) |-> move_pipe(g.pipes[i], d)]
        gone    == {i \in 1..Len(moved) : off_screen(moved[i])}
        t       == timer_tick(g.timer, d)
        spawned == IF just_finished(t) THEN spawn_pipe_pair(g.score, k1, k2) ELSE <<>>
    IN  [bird  |-> b,
         pipes |-> apply_deferred(moved, gone, spawned),
         timer |-> t,
         calls |-> game_over_calls(b, moved),
         hits  |-> score_hits(moved, b.x),
         retired |-> Cardinality({i \in gone : moved[i].scored = <<TRUE>>})]

\* a whole warm-up frame; it is played only while no collision is found and
\* no pipe is counted
warm_up ==
    /\ ticks < 1
    /\ state = "Playing"
    /\ ran = {}
    /\ LET g == playing_frame([bird |-> bird, pipes |-> pipes, score |-> score,
                               timer |-> timer], space, dt, 0, 0)
       IN  /\ g.calls = <<>>
           /\ g.hits = {}
           /\ bird' = g.bird
           /\ pipes' = g.pipes
           /\ timer' = g.timer
           /\ retired' = retired + g.retired
    /\ ticks' = ticks + 1
    /\ IF ticks' < 1
       THEN space' = (warm_up_frame(ticks') \in WarmUpFlaps) /\ dt' = 1
       ELSE space' \in BOOLEAN /\ dt' \in DtSet
    /\ UNCHANGED <<state, next_state, spawn_cmds, despawn_cmds, score, score_text,
                   instruction, death_events, score_events, ran>>
    /\ UNCHANGED <<message_vars, effect_vars, call>>

PlayInit ==
    /\ state = "Playing"
    /\ next_state = "Unchanged"
    /\ space = (warm_up_frame(1 - WarmUpFrames) \in WarmUpFlaps)
    /\ dt = 1
    /\ bird = spawn_bird
    /\ pipes = <<>>
    /\ spawn_cmds = <<>>
    /\ despawn_cmds = {}
    /\ score = 0
    /\ score_text = 0
    /\ instruction = "hidden"
    /\ timer = PipeSpawnTimer
    /\ death_events = <<>>
    /\ score_events = 0
    /\ ran = {}
    /\ retired = 0
    /\ ticks = 1 - WarmUpFrames
    /\ effects_idle
    /\ call = no_call

\* a step of a system or of the frame boundary once the warm-up is over
PlayStep ==
    /\ ticks >= 1
    /\ \/ restart_game
       \/ bird_flap
       \/ bird_physics
       \/ bird_tilt
       \/ pipe_spawner
       \/ pipe_movement
       \/ check_collisions
       \/ update_score
       \/ frame

PlayNext == warm_up \/ PlayStep

PlaySpec == PlayInit /\ [][PlayNext]_vars

(***************************************************************************)
(* The game from the menu and the game in progress side by side: IdleSpec  *)
(* starts in the Menu frame of Spec or in the first Playing frame of       *)
(* PlaySpec, so that its frames in Menu and in GameOver are those of a     *)
(* fresh game and those of a game with pipes in the world.                 *)
(***************************************************************************)
idle_frame ==
    /\ ran = Scheduled(state)
    /\ ticks < MaxIdleTicks
    /\ end_of_frame

IdleStep ==
    /\ ticks >= 1
    /\ \/ start_game
       \/ restart_game
       \/ bird_flap
       \/ bird_physics
       \/ bird_tilt
       \/ pipe_spawner
       \/ pipe_movement
       \/ check_collisions
       \/ update_score
       \/ idle_frame

IdleSpec == (Init \/ PlayInit) /\ [][warm_up \/ IdleStep]_vars

(***************************************************************************)
(* Functions called on their own.  The variable call holds the arguments   *)
(* and, after the call, the result; the game stays as Startup leaves it.   *)
(***************************************************************************)
\* the state after Startup with one of the calls cs about to be made
CallInit(cs) ==
    /\ state = "Menu"
    /\ next_state = "Unchanged"
    /\ space = FALSE
    /\ dt = 0
    /\ bird = spawn_bird
    /\ pipes = <<>>
    /\ spawn_cmds = <<>>
    /\ despawn_cmds = {}
    /\ score = 0
    /\ score_text = 0
    /\ instruction = "start"
    /\ timer = PipeSpawnTimer
    /\ death_events = <<>>
    /\ score_events = 0
    /\ ran = {}
    /\ retired = 0
    /\ ticks = 1
    /\ effects_idle
    /\ call \in cs

\* the call returns r
Returns(r) ==
    /\ call.result = <<>>
    /\ call' = [call EXCEPT !.result = <<r>>]
    /\ UNCHANGED <<state, next_state, space, dt, bird, pipes, spawn_cmds,
                   despawn_cmds, score, score_text, instruction, timer,
                   death_events, score_events, ran, retired, ticks>>
    /\ UNCHANGED <<message_vars, effect_vars>>

\* bird_physics with the position updated from the velocity before the step
physics_exact_explicit(velocity, y, n, den) ==
    [velocity |-> velocity * den + GRAVITY * n,
     y |-> y * den * den + velocity * den * n]

\* bird_physics in exact numbers for a frame time of n/den s: velocity and y
\* are given in px/s and px, the new velocity is returned in 1/den px/s and
\* the new y in 1/den^2 px
physics_exact(velocity, y, n, den) ==
    LET v == velocity * den + GRAVITY * n
    IN  [velocity |-> v, y |-> y * den * den + v * n]

\* velocities after flaps and falls, positions, frame times n/den
PhysicsCalls ==
    [fn : {"bird_physics"}, velocity : {-900, -160, 0, 190, FLAP_STRENGTH},
     y : {-100, 0, 200}, n : 0..3, den : {TIME_DEN, 50}, result : {<<>>}]

physics_call ==
    /\ call.fn = "bird_physics"
    /\ Returns(physics_exact(call.velocity, call.y, call.n, call.den))

PhysicsSpec == CallInit(PhysicsCalls) /\ [][physics_call]_vars

\* flash states before and after expiry, with and without a total duration
FlashCalls ==
    [fn : {"current_alpha"}, resource : {"ScreenFlashState", "EdgeFlashState"},
     duration : -2..4, total_duration : -1..3,
     max_alpha : {0, SCORE_FLASH_ALPHA, DEATH_FLASH_ALPHA}, result : {<<>>}]

\* is_active() and current_alpha() of the flash state given by the call
flash_call ==
    /\ call.fn = "current_alpha"
    /\ LET f == [duration |-> call.duration, total_duration |-> call.total_duration,
                 color |-> "black", max_alpha |-> call.max_alpha]
       IN  Returns([is_active |-> is_active(f), current_alpha |-> current_alpha(f)])

FlashSpec == CallInit(FlashCalls) /\ [][flash_call]_vars

\* a query for the bird that yields a bird at the start position when no
\* entity matches
single_or_default(q) == IF Len(q) = 1 THEN <<q[1]>> ELSE <<spawn_bird>>

\* Query::single: Ok(item) when exactly one entity matches, Err otherwise
single(q) == IF Len(q) = 1 THEN <<q[1]>> ELSE <<>>

\* the first pair, as spawned at score 0 with both draws 0, moved to x
pair_at(x) ==
    LET pair == spawn_pipe_pair(0, 0, 0)
    IN  [i \in 1..Len(pair) |-> [pair[i] EXCEPT !.x = x]]

\* check_collisions, update_score or bird_physics runs on the world w of the
\* call, whose Bird query yields w.birds: the first two take the bird with
\* single() and return when there is none, the third loops over the query
query_call ==
    /\ call.fn \in {"check_collisions", "update_score", "bird_physics"}
    /\ LET w == call.world
           found == single(w.birds)
           calls == game_over_calls(found[1], w.pipes)
           hits == score_hits(w.pipes, found[1].x)
       IN  Returns(
             CASE call.fn = "check_collisions" ->
                    IF found = <<>> \/ calls = <<>> THEN w
                    ELSE [w EXCEPT !.next_state = "GameOver",
                                   !.death_events = @ \o calls]
               [] call.fn = "update_score" ->
                    IF found = <<>> THEN w
                    ELSE [w EXCEPT !.pipes = [i \in 1..Len(w.pipes) |->
                                                 IF i \in hits
                                                 THEN [w.pipes[i] EXCEPT !.scored = <<TRUE>>]
                                                 ELSE w.pipes[i]],
                                   !.score = @ + Cardinality(hits),
                                   !.score_events = @ + Cardinality(hits)]
               [] call.fn = "bird_physics" ->
                    [w EXCEPT !.birds = [i \in 1..Len(w.birds) |->
                                            physics_step(w.birds[i], w.dt)]])

\* Playing worlds with no bird, with the bird at its start position and with
\* the bird on the floor; without pipes and with a pair that the bird's x has
\* passed
QuerySpec ==
    /\ CallInit([fn : {"check_collisions", "update_score", "bird_physics"},
                 world : [birds : {<<>>, <<spawn_bird>>,
                                   <<[spawn_bird EXCEPT
                                        !.y = GROUND_HEIGHT - WINDOW_HEIGHT \div 2,
                                        !.velocity = -2 * FLAP_STRENGTH]>>},
                          pipes : {<<>>, pair_at(BIRD_START_X - PIPE_WIDTH \div 2)},
                          score : {0, 3},
                          next_state : {"Unchanged"},
                          death_events : {<<>>},
                          score_events : {0},
                          dt : DtSet],
                 result : {<<>>}])
    /\ [][query_call]_vars

\* the whole part of the top edge of the Bottom pipe of the first pair
bottom_pipe_top ==
    LET p == pair_at(0)[2]
    IN  FxAdd(p.y, FxHalf(p.h))[1]

\* the three predicates on the bird of the call, and whether check_collisions
\* calls trigger_game_over
collision_call ==
    /\ call.fn = "check_collisions_predicates"
    /\ Returns([ground   |-> check_ground_collision(call.bird.y),
                ceiling  |-> check_ceiling_collision(call.bird.y),
                pipe     |-> check_pipe_collisions(call.bird.x, call.bird.y, call.pipes),
                reported |-> game_over_calls(call.bird, call.pipes) # <<>>])

\* Birds at the start x: around the y where the square touches the floor, the
\* ceiling and the top edge of the Bottom pipe, and in free air; no pipe, or
\* the Bottom pipe of the first pair around the x where the rectangle touches
\* the square from the left and from the right
CollisionSpec ==
    /\ CallInit(
         [fn : {"check_collisions_predicates"},
          bird : {[spawn_bird EXCEPT !.y = y] :
                     y \in {GROUND_HEIGHT - half_height + half_bird + e : e \in {-1, 0, 1}}
                        \cup {half_height - half_bird + e : e \in {-1, 0, 1}}
                        \cup {bottom_pipe_top + half_bird + e : e \in {-1, 0, 1}}
                        \cup {BIRD_START_Y}},
          pipes : {<<>>}
                  \cup {<<pair_at(x)[2]>> :
                          x \in {BIRD_START_X - half_bird - PIPE_WIDTH \div 2 + e : e \in {-1, 0, 1}}
                             \cup {BIRD_START_X + half_bird + PIPE_WIDTH \div 2 + e : e \in {-1, 0, 1}}
                             \cup {BIRD_START_X}},
          result : {<<>>}])
    /\ [][collision_call]_vars

(***************************************************************************)
(* update_particles (src/src/systems/effects.rs), tick after tick on the   *)
(* particles of one burst.  Lifetimes are in 1/LIFE_DEN s, velocities in   *)
(* 1/VEL_DEN pixel per second, positions in 1/(VEL_DEN * TIME_DEN) pixel,  *)
(* scales in 1/SCALE_DEN.  A despawned entity keeps its place in the       *)
(* sequence with despawned = TRUE.                                         *)
(***************************************************************************)
LIFE_DEN == 1000000
VEL_DEN == 1000
SCALE_DEN == 1000
\* ticks of update_particles followed in one run
MaxParticleTicks == 9
\* 1.5 s and 0.6 s, in 1/LIFE_DEN s
FLAP_PARTICLE_LIFETIME == 1500000
DEATH_PARTICLE_LIFETIME == 600000

\* the entity that spawn_flap_particles (kind "FlapParticle") or
\* spawn_death_particles (kind "DeathParticle") spawns at the bird's start
\* position with velocity v and the draw k/RAND_MOD for the lifetime:
\* FLAP_PARTICLE_LIFETIME * (0.7 + rand_f32() * 0.3), scale 0 and the world's
\* scroll speed, or DEATH_PARTICLE_LIFETIME * (0.6 + rand_f32() * 0.4), scale
\* 1 and no world velocity
spawned_particle(kind, v, k) ==
    [kind |-> kind,
     x |-> BIRD_START_X * VEL_DEN * TIME_DEN, y |-> BIRD_START_Y * VEL_DEN * TIME_DEN,
     scale |-> IF kind = "FlapParticle" THEN 0 ELSE SCALE_DEN,
     velocity |-> v,
     world_velocity |-> IF kind = "FlapParticle"
                        THEN <<-WORLD_SCROLL_SPEED * VEL_DEN, 0>> ELSE <<0, 0>>,
     lifetime |-> IF kind = "FlapParticle"
                  THEN (FLAP_PARTICLE_LIFETIME \div (10 * RAND_MOD)) * (7 * RAND_MOD + 3 * k)
                  ELSE (DEATH_PARTICLE_LIFETIME \div (10 * RAND_MOD)) * (6 * RAND_MOD + 4 * k),
     initial_lifetime |-> IF kind = "FlapParticle"
                          THEN FLAP_PARTICLE_LIFETIME ELSE DEATH_PARTICLE_LIFETIME,
     despawned |-> FALSE]

\* a loop body that lets every particle scroll with the world in every state
particle_step_scrolling(p, d, is_playing) ==
    LET left == p.lifetime - d * (LIFE_DEN \div TIME_DEN)
        life_ratio == (left * SCALE_DEN) \div p.initial_lifetime
        grow_progress == ((SCALE_DEN - life_ratio) * 100) \div 15
    IN  IF left <= 0
        THEN [p EXCEPT !.lifetime = left, !.despawned = TRUE]
        ELSE [p EXCEPT !.lifetime = left,
                       !.x = @ + p.velocity[1] * d + p.world_velocity[1] * d,
                       !.y = @ + p.velocity[2] * d + p.world_velocity[2] * d,
                       !.velocity = <<(@[1] * 98) \div 100, (@[2] * 98) \div 100>>,
                       !.scale = IF life_ratio > (85 * SCALE_DEN) \div 100
                                 THEN SCALE_DEN - ((SCALE_DEN - grow_progress)
                                                     * (SCALE_DEN - grow_progress)) \div SCALE_DEN
                                 ELSE (life_ratio * 100) \div 85]

\* the body of the loop of update_particles for one particle and the frame
\* time d: the lifetime falls by dt and the despawn is queued (applied when
\* the tick ends) at 0 or less; otherwise the particle moves, velocity *= 0.98
\* and the scale follows an ease-out growth during the first 15 % of the
\* life and shrinks linearly afterwards
particle_step(p, d, is_playing) ==
    LET left == p.lifetime - d * (LIFE_DEN \div TIME_DEN)
        life_ratio == (left * SCALE_DEN) \div p.initial_lifetime
        grow_progress == ((SCALE_DEN - life_ratio) * 100) \div 15
    IN  IF left <= 0
        THEN [p EXCEPT !.lifetime = left, !.despawned = TRUE]
        ELSE [p EXCEPT !.lifetime = left,
                       !.x = @ + p.velocity[1] * d
                               + (IF is_playing THEN p.world_velocity[1] * d ELSE 0),
                       !.y = @ + p.velocity[2] * d
                               + (IF is_playing THEN p.world_velocity[2] * d ELSE 0),
                       !.velocity = <<(@[1] * 98) \div 100, (@[2] * 98) \div 100>>,
                       !.scale = IF life_ratio > (85 * SCALE_DEN) \div 100
                                 THEN SCALE_DEN - ((SCALE_DEN - grow_progress)
                                                     * (SCALE_DEN - grow_progress)) \div SCALE_DEN
                                 ELSE (life_ratio * 100) \div 85]

\* one more tick: update_particles runs whatever the state is, with the
\* frame time d, in a frame of state s, on the entities that still exist
particles_tick ==
    /\ call.fn = "update_particles"
    /\ call.ticks < MaxParticleTicks
    /\ \E d \in DtSet, s \in {"Playing", "GameOver"} :
          call' = [call EXCEPT
                     !.particles = [i \in 1..Len(@) |->
                                       IF @[i].despawned THEN @[i]
                                       ELSE particle_step(@[i], d, s = "Playing")],
                     !.game_state = s, !.dt = d, !.ticks = @ + 1]
    /\ UNCHANGED <<state, next_state, space, dt, bird, pipes, spawn_cmds,
                   despawn_cmds, score, score_text, instruction, timer,
                   death_events, score_events, ran, retired, ticks>>
    /\ UNCHANGED <<message_vars, effect_vars>>

\* two particles of a flap burst or of a death burst, each with the smallest
\* or the largest lifetime
ParticleSpec ==
    /\ CallInit(
         [fn : {"update_particles"},
          particles : {<<spawned_particle("FlapParticle", <<20 * VEL_DEN, -3 * VEL_DEN>>, k1),
                         spawned_particle("FlapParticle", <<-20 * VEL_DEN, 12 * VEL_DEN>>, k2)>> :
                           k1 \in RandDraws, k2 \in RandDraws}
                      \cup {<<spawned_particle("DeathParticle", <<60 * VEL_DEN, 0>>, k1),
                              spawned_particle("DeathParticle",
                                               <<-100 * VEL_DEN, 260 * VEL_DEN>>, k2)>> :
                           k1 \in RandDraws, k2 \in RandDraws},
          game_state : {"Playing"},
          dt : {0},
          ticks : {0}])
    /\ [][particles_tick]_vars

(***************************************************************************)
(* update_score_pop and update_bird_squash (src/src/systems/effects.rs),   *)
(* tick after tick on the entity that carries the animation.  Timers are   *)
(* in 1/EFFECT_DEN s.  The scale of a running animation is kept as the     *)
(* curve and the point of the curve it is taken from.                      *)
(***************************************************************************)
\* ticks of an animation system followed in one run
MaxAnimTicks == 5

\* Vec3::ONE, the scale (1, 1, 1) that comes from no curve
NEUTRAL == [curve |-> "one", timer |-> 0, duration |-> 0]

\* the component that trigger_score_pop inserts
ScorePopAnimation == [timer |-> 0, duration |-> SCORE_POP_DURATION]

\* the component that trigger_bird_squash inserts
BirdSquashStretch == [timer |-> 0, duration |-> FLAP_SQUASH_DURATION, is_squash |-> TRUE]

\* a loop body that leaves the scale of the last frame when the animation
\* is complete
score_pop_step_no_reset(e, d) ==
    IF e.anim = <<>> THEN [e EXCEPT !.remove = FALSE]
    ELSE LET a == [e.anim[1] EXCEPT !.timer = @ + d]
         IN  IF a.timer >= a.duration
             THEN [e EXCEPT !.anim = <<a>>, !.remove = TRUE]
             ELSE [e EXCEPT !.anim = <<a>>, !.scale = [curve |-> "sine", timer |-> a.timer,
                                                        duration |-> a.duration],
                            !.remove = FALSE]

\* update_score_pop on the score text e: anim is empty or holds the
\* component, remove tells whether the removal of the component is queued;
\* the scale of a running animation is
\* Vec3::splat(1.0 + (progress * PI).sin() * (SCORE_POP_SCALE - 1.0))
score_pop_step(e, d) ==
    IF e.anim = <<>> THEN [e EXCEPT !.remove = FALSE]
    ELSE LET a == [e.anim[1] EXCEPT !.timer = @ + d]
         IN  IF a.timer >= a.duration
             THEN [e EXCEPT !.anim = <<a>>, !.scale = NEUTRAL, !.remove = TRUE]
             ELSE [e EXCEPT !.anim = <<a>>, !.scale = [curve |-> "sine", timer |-> a.timer,
                                                        duration |-> a.duration],
                            !.remove = FALSE]

\* update_bird_squash on the bird e; the scale of a running animation is
\* Vec3::new(squash, stretch, 1.0) of elastic_out(progress)
bird_squash_step(e, d) ==
    IF e.anim = <<>> THEN [e EXCEPT !.remove = FALSE]
    ELSE LET a == [e.anim[1] EXCEPT !.timer = @ + d]
         IN  IF a.timer >= a.duration
             THEN [e EXCEPT !.anim = <<a>>, !.scale = NEUTRAL,
                            !.custom_size = BIRD_SIZE, !.remove = TRUE]
             ELSE [e EXCEPT !.anim = <<a>>, !.scale = [curve |-> "elastic_out", timer |-> a.timer,
                                                        duration |-> a.duration],
                            !.remove = FALSE]

\* the commands of the tick applied to the entity: the removal queued by the
\* update system and the insertion queued by the trigger for a new event, in
\* the order in which the two systems have run
apply_animation_commands(e, inserted, insert_last, component) ==
    IF insert_last
    THEN [e EXCEPT !.anim = IF inserted THEN <<component>>
                            ELSE IF e.remove THEN <<>> ELSE @]
    ELSE [e EXCEPT !.anim = IF e.remove THEN <<>>
                            ELSE IF inserted THEN <<component>> ELSE @]

\* one more tick of the score text: update_score_pop runs whatever the state
\* is, with a frame time of 0 s, 0.05 s or 0.1 s (in 1/EFFECT_DEN s); in a
\* Playing frame trigger_score_pop may have read a ScoreEvent
score_pop_tick ==
    /\ call.fn = "update_score_pop"
    /\ call.ticks < MaxAnimTicks
    /\ \E d \in {0, 1, 2}, s \in {"Playing", "GameOver"}, scored \in BOOLEAN,
          insert_last \in BOOLEAN :
          /\ scored => s = "Playing"
          /\ call' = [call EXCEPT
                         !.entity = apply_animation_commands(score_pop_step(call.entity, d),
                                        scored, insert_last, ScorePopAnimation),
                         !.game_state = s, !.dt = d, !.event = scored, !.ticks = @ + 1]
    /\ UNCHANGED <<state, next_state, space, dt, bird, pipes, spawn_cmds,
                   despawn_cmds, score, score_text, instruction, timer,
                   death_events, score_events, ran, retired, ticks>>
    /\ UNCHANGED <<message_vars, effect_vars>>

\* one more tick of the bird: update_bird_squash runs whatever the state is;
\* in a Playing frame trigger_bird_squash may have read a FlapEvent
bird_squash_tick ==
    /\ call.fn = "update_bird_squash"
    /\ call.ticks < MaxAnimTicks
    /\ \E d \in {0, 1, 2}, s \in {"Playing", "GameOver"}, flapped \in BOOLEAN,
          insert_last \in BOOLEAN :
          /\ flapped => s = "Playing"
          /\ call' = [call EXCEPT
                         !.entity = apply_animation_commands(bird_squash_step(call.entity, d),
                                        flapped, insert_last, BirdSquashStretch),
                         !.game_state = s, !.dt = d, !.event = flapped, !.ticks = @ + 1]
    /\ UNCHANGED <<state, next_state, space, dt, bird, pipes, spawn_cmds,
                   despawn_cmds, score, score_text, instruction, timer,
                   death_events, score_events, ran, retired, ticks>>
    /\ UNCHANGED <<message_vars, effect_vars>>

\* the score text and the bird with an animation that has just been started
AnimationSpec ==
    /\ CallInit(
         [fn : {"update_score_pop"},
          entity : {[anim |-> <<ScorePopAnimation>>, scale |-> NEUTRAL, remove |-> FALSE]},
          game_state : {"Playing"}, dt : {0}, event : {FALSE}, ticks : {0}]
         \cup
         [fn : {"update_bird_squash"},
          entity : {[anim |-> <<BirdSquashStretch>>, scale |-> NEUTRAL,
                     custom_size |-> BIRD_SIZE, remove |-> FALSE]},
          game_state : {"Playing"}, dt : {0}, event : {FALSE}, ticks : {0}])
    /\ [][score_pop_tick \/ bird_squash_tick]_vars

(***************************************************************************)
(* update_viewport (src/src/systems/viewport.rs).  A float is a record:    *)
(* kind "finite" with the fraction num / den in lowest terms (den > 0),    *)
(* kind "inf" (num is the sign, den 0) or kind "nan" (num and den 0).      *)
(***************************************************************************)
\* the float num / den, den > 0
fraction(num, den) ==
    LET RECURSIVE gcd(_, _)
        gcd(a, b) == IF b = 0 THEN a ELSE gcd(b, a % b)
        g == gcd(IF num < 0 THEN -num ELSE num, den)
    IN  [kind |-> "finite", num |-> num \div g, den |-> den \div g]

\* window_width / window_height of two non-negative sizes: x / 0.0 is
\* infinite and 0.0 / 0.0 is not a number
float_div(a, b) ==
    IF b # 0 THEN fraction(a, b)
    ELSE IF a = 0 THEN [kind |-> "nan", num |-> 0, den |-> 0]
    ELSE [kind |-> "inf", num |-> 1, den |-> 0]

\* a viewport that takes the height of the window as well
update_from_window_resizing(viewport, window_width, window_height) ==
    [width |-> float_div(window_width, 1), height |-> window_height]

\* GameViewport::update_from_window: self.width = self.height * aspect_ratio
\* for the whole, positive height
update_from_window(viewport, window_width, window_height) ==
    LET aspect_ratio == float_div(window_width, window_height)
    IN  [viewport EXCEPT
           !.width = IF aspect_ratio.kind = "finite"
                     THEN fraction(viewport.height * aspect_ratio.num, aspect_ratio.den)
                     ELSE aspect_ratio]

RECURSIVE read_resize_events(_, _)
\* for event in resize_events.read() { viewport.update_from_window(..) }
read_resize_events(viewport, events) ==
    IF events = <<>> THEN viewport
    ELSE read_resize_events(update_from_window(viewport, events[1][1], events[1][2]),
                            Tail(events))

viewport_call ==
    /\ call.fn = "update_viewport"
    /\ Returns(read_resize_events(call.viewport, call.events))

\* the viewport of the window of main or of a wide window, and up to two
\* unread WindowResized events: to the window of main, a wider one, a higher
\* one, a small one and windows without area
ViewportSpec ==
    /\ LET WindowSizes == {<<WINDOW_WIDTH, WINDOW_HEIGHT>>,
                           <<2 * WINDOW_WIDTH, WINDOW_HEIGHT>>,
                           <<WINDOW_WIDTH, WINDOW_HEIGHT + 1>>, <<3, 7>>,
                           <<WINDOW_WIDTH, 0>>, <<0, 0>>}
       IN  CallInit(
             [fn : {"update_viewport"},
              viewport : [width : {fraction(WINDOW_WIDTH, 1), fraction(2 * GAME_HEIGHT, 1)},
                          height : {GAME_HEIGHT}],
              events : {<<>>} \cup {<<a>> : a \in WindowSizes}
                       \cup {<<a, b>> : a \in WindowSizes, b \in WindowSizes},
              result : {<<>>}])
    /\ [][viewport_call]_vars

(***************************************************************************)
(* rand_f32 (src/src/utils.rs).  A u64 is the set of the positions of its  *)
(* 1 bits; an f32 in (0, 1] is a pair [m, e] that stands for               *)
(* m / 2^(MANTISSA_BITS + e), and 0.0 is [m |-> 0, e |-> 0].               *)
(***************************************************************************)
\* width of the AtomicU64 SEED
WORD_BITS == 64

\* seed ^= seed << 13; seed ^= seed >> 7; seed ^= seed << 17, on WORD_BITS bits
xorshift64(seed) ==
    LET xor(a, b) == (a \ b) \cup (b \ a)
        shl(a, n) == {i + n : i \in {j \in a : j + n < WORD_BITS}}
        shr(a, n) == {i - n : i \in {j \in a : j >= n}}
        s1 == xor(seed, shl(seed, 13))
        s2 == xor(s1, shr(s1, 7))
    IN  xor(s2, shl(s2, 17))

RECURSIVE pow2_mod(_, _)
\* 2^i % n, for n * n within the integers
pow2_mod(i, n) ==
    IF i < MANTISSA_BITS THEN (2^i) % n
    ELSE (pow2_mod(i \div 2, n) * pow2_mod(i - i \div 2, n)) % n

RECURSIVE bits_mod_range(_, _, _, _)
\* the bits lo..hi of a, taken % n
bits_mod_range(a, n, lo, hi) ==
    IF lo = hi THEN (IF lo \in a THEN pow2_mod(lo, n) ELSE 0)
    ELSE LET mid == (lo + hi) \div 2
         IN  (bits_mod_range(a, n, lo, mid) + bits_mod_range(a, n, mid + 1, hi)) % n

\* a remainder that can reach the modulus itself
seed_mod_inclusive(seed) == bits_mod_range(seed, RAND_MOD + 1, 0, WORD_BITS - 1)

\* seed % 10000
seed_mod(seed) == bits_mod_range(seed, RAND_MOD, 0, WORD_BITS - 1)

\* one call of rand_f32 that finds SEED = seed and, if it asks, the clock at
\* clock nanoseconds (as u64): the value stored to SEED and the f32 returned
rand_f32(seed, clock) ==
    LET start == IF seed = {} THEN clock ELSE seed
        next  == xorshift64(start)
    IN  [SEED |-> next, value |-> f32_div(seed_mod(next), RAND_MOD)]

rand_call ==
    /\ call.fn = "rand_f32"
    /\ Returns(rand_f32(call.seed, call.clock))

\* SEED before the first call (0), with one bit set, with all bits set, the
\* u64 whose xorshift64 step is 10000 (remainder 0, and 10000 % 10001 is the
\* largest remainder of a division by 10001) and the u64 whose step is 9999
\* (the largest remainder); clocks 0, 1 and the seed before 9999
RandSpec ==
    /\ LET SeedBefore10000 ==
               {2, 3, 4, 5, 6, 9, 10, 12, 13, 16, 17, 18, 23, 25, 28, 30, 31, 32,
                34, 35, 37, 38, 39, 42, 46, 47, 50, 51, 53, 54, 61, 63}
           SeedBefore9999 ==
               {0, 3, 5, 8, 9, 12, 13, 16, 17, 18, 19, 20, 21, 22, 26, 29, 30, 31,
                32, 35, 37, 39, 40, 44, 45, 47, 48, 50, 51, 52, 53, 57, 58, 59, 63}
       IN  CallInit(
             [fn : {"rand_f32"},
              seed : {{}, 0..(WORD_BITS - 1), SeedBefore10000, SeedBefore9999}
                     \cup {{i} : i \in 0..(WORD_BITS - 1)},
              clock : {{}, {0}, SeedBefore9999},
              result : {<<>>}])
    /\ [][rand_call]_vars

\* pipe_spawner in one tick of call.dt (1/TIME_DEN s) with the mode, the
\* timer and the score of the call: the timer after the tick and the
\* entities queued in commands
spawner_call ==
    /\ call.fn = "pipe_spawner"
    /\ \E k1 \in RandDraws, k2 \in RandDraws :
          Returns(IF call.state # "Playing"
                  THEN [timer |-> call.timer, spawn_cmds |-> <<>>]
                  ELSE LET t == timer_tick(call.timer, call.dt)
                       IN  [timer |-> t,
                            spawn_cmds |-> IF just_finished(t)
                                           THEN spawn_pipe_pair(call.score, k1, k2)
                                           ELSE <<>>])

\* every mode, a timer at every tenth of its interval and ticks from no time
\* to more than two intervals
SpawnerSpec ==
    /\ CallInit(
         [fn : {"pipe_spawner"},
          state : {"Menu", "Playing", "GameOver"},
          timer : [elapsed : {(i * timer_duration) \div 10 : i \in 0..9},
                   times_finished : {0, 1}],
          dt : 0..(2 * timer_duration + 2),
          score : {0},
          result : {<<>>}])
    /\ [][spawner_call]_vars

(***************************************************************************)
(* rand_f32 called by two systems that the executor runs at the same time  *)
(* (src/src/main.rs: no system of Update is ordered after another, and     *)
(* the callers of rand_f32 share no resource or component).  The shared    *)
(* memory of a call is SEED.load and SEED.store; reading the clock and the *)
(* xorshift step work on the local `seed`.  call.pc[p] is where system p   *)
(* stands in its call, call.seed[p] its local, call.left[p] the calls it   *)
(* still makes, call.clock the answers of SystemTime::now one after the    *)
(* other, call.returned the calls that returned.                           *)
(***************************************************************************)
\* calls of rand_f32 that one system makes in the frame
MaxRandCalls == 2

\* let mut seed = SEED.load(Relaxed); if seed == 0 { seed = now as u64 }
rand_load ==
    /\ call.fn = "rand_f32_concurrent"
    /\ \E p \in DOMAIN call.pc :
          /\ call.pc[p] = "load"
          /\ call.left[p] > 0
          /\ call' = [call EXCEPT
                        !.pc[p] = "store",
                        !.seed[p] = IF call.SEED = {}
                                    THEN call.clock[call.clock_reads + 1]
                                    ELSE call.SEED,
                        !.clock_reads = IF call.SEED = {} THEN @ + 1 ELSE @]
    /\ UNCHANGED <<state, next_state, space, dt, bird, pipes, spawn_cmds,
                   despawn_cmds, score, score_text, instruction, timer,
                   death_events, score_events, ran, retired, ticks>>
    /\ UNCHANGED <<message_vars, effect_vars>>

\* the xorshift step on the local, SEED.store(seed, Relaxed) and the return
rand_store ==
    /\ call.fn = "rand_f32_concurrent"
    /\ \E p \in DOMAIN call.pc :
          /\ call.pc[p] = "store"
          /\ LET next == xorshift64(call.seed[p])
             IN  call' = [call EXCEPT
                            !.pc[p] = "load",
                            !.left[p] = @ - 1,
                            !.SEED = next,
                            !.returned = Append(@,
                                [by |-> p, from |-> call.seed[p],
                                 before |-> call.SEED, SEED |-> next,
                                 value |-> f32_div(seed_mod(next), RAND_MOD)])]
    /\ UNCHANGED <<state, next_state, space, dt, bird, pipes, spawn_cmds,
                   despawn_cmds, score, score_text, instruction, timer,
                   death_events, score_events, ran, retired, ticks>>
    /\ UNCHANGED <<message_vars, effect_vars>>

\* spawn_death_particles and update_screen_shake in a GameOver frame, before
\* the first call of rand_f32 (the actor fell before the first spawn of
\* obstacles) or after it, and pipe_spawner and update_screen_shake in a
\* Playing frame after a restart; each system makes one call or
\* MaxRandCalls calls; the clock is at 1 ns and then at 2 ns, or late
RaceSpec ==
    /\ LET Late == {0, 3, 5, 8, 9, 12, 13, 16, 17, 18, 19, 20, 21, 22, 26, 29, 30,
                    31, 32, 35, 37, 39, 40, 44, 45, 47, 48, 50, 51, 52, 53, 57,
                    58, 59, 63}
           Frame(systems, seeds) ==
               [fn : {"rand_f32_concurrent"},
                SEED : seeds,
                clock : {<<{0}, {1}>>, <<Late, Late \cup {1}>>},
                clock_reads : {0},
                pc : {[p \in systems |-> "load"]},
                seed : {[p \in systems |-> {}]},
                left : [systems -> {1, MaxRandCalls}],
                returned : {<<>>}]
       IN  CallInit(
             Frame({"spawn_death_particles", "update_screen_shake"},
                   {{}, {0}, 0..(WORD_BITS - 1)})
             \cup Frame({"pipe_spawner", "update_screen_shake"},
                        {{0}, 0..(WORD_BITS - 1)}))
    /\ [][rand_load \/ rand_store]_vars

\* spawn_flap_particles run by a reader that has every message of
\* call.events pending, the particle_count of event i drawn as call.ks[i]:
\* the burst of each event and the spawns queued in commands
flap_particles_call ==
    /\ call.fn = "spawn_flap_particles"
    /\ Returns([bursts |-> [i \in 1..Len(call.events) |->
                               flap_burst(call.events[i], call.ks[i])],
                particle_cmds |-> flap_bursts(call.events, 1..Len(call.events),
                                              call.ks, 1)])

\* one FlapEvent with every draw of rand_f32, and two FlapEvents with the
\* draws that are next to a change of the count
FlapParticleSpec ==
    /\ LET at(y) == [position |-> <<BIRD_START_X, y>>, age |-> 0, read_by |-> {}]
           Edges == {0, RAND_MOD \div 4 - 1, RAND_MOD \div 4, RAND_MOD \div 2 - 1,
                     RAND_MOD \div 2, RAND_MOD - 1}
       IN  CallInit(
             [fn : {"spawn_flap_particles"}, events : {<<at(0)>>},
              ks : {<<k>> : k \in 0..(RAND_MOD - 1)}, result : {<<>>}]
             \cup
             [fn : {"spawn_flap_particles"}, events : {<<at(0), at(FLAP_STRENGTH)>>},
              ks : {<<k1, k2>> : k1 \in Edges, k2 \in Edges}, result : {<<>>}])
    /\ [][flap_particles_call]_vars

(* The game with its effects.  EffectSpec starts like PlaySpec and adds    *)
(* the effect systems of main.rs.  The effect triggers, restart_game and   *)
(* update_score run at any place of a frame.  The other gameplay systems   *)
(* and the two readers of FlapEvent run in one of the orders the schedule  *)
(* allows (bird_flap, spawn_flap_particles, trigger_bird_squash,           *)
(* bird_physics, bird_tilt, pipe_spawner, pipe_movement, check_collisions),*)
(* and so do the three decay systems, which touch disjoint resources and   *)
(* entities (shake, screen flash, edge flash).  The animations of entities *)
(* (update_particles, update_bird_squash, update_score_pop) are not part   *)
(* of the model.                                                           *)
(***************************************************************************)
\* the systems that this specification runs before sys
RunsAfter(sys) ==
    CASE sys = "spawn_flap_particles" -> {"bird_flap"}
      [] sys = "trigger_bird_squash" -> {"spawn_flap_particles"}
      [] sys = "bird_physics"        -> {"trigger_bird_squash"}
      [] sys = "bird_tilt"           -> {"bird_physics"}
      [] sys = "pipe_spawner"        -> {"bird_tilt"}
      [] sys = "pipe_movement"       -> {"pipe_spawner"}
      [] sys = "check_collisions"    -> {"pipe_movement"}
      [] sys = "update_screen_flash" -> {"update_screen_shake"}
      [] sys = "update_edge_flash"   -> {"update_screen_flash"}
      [] OTHER                       -> {}

\* the systems that sys waits for have run
Ordered(sys) == RunsAfter(sys) \subseteq ran

\* every system and effect system of the frame has run
effect_frame ==
    /\ ran = Scheduled(state) \cup EffectScheduled(state)
    /\ ticks < MaxEffectTicks
    /\ end_of_frame

EffectStep ==
    /\ ticks >= 1
    /\ \/ restart_game
       \/ bird_flap
       \/ Ordered("spawn_flap_particles") /\ spawn_flap_particles
       \/ Ordered("trigger_bird_squash") /\ trigger_bird_squash
       \/ Ordered("bird_physics") /\ bird_physics
       \/ Ordered("bird_tilt") /\ bird_tilt
       \/ Ordered("pipe_spawner") /\ pipe_spawner
       \/ Ordered("pipe_movement") /\ pipe_movement
       \/ Ordered("check_collisions") /\ check_collisions
       \/ update_score
       \/ trigger_score_pop
       \/ trigger_score_effects
       \/ spawn_death_particles
       \/ trigger_death_effects
       \/ update_screen_shake
       \/ Ordered("update_screen_flash") /\ update_screen_flash
       \/ Ordered("update_edge_flash") /\ update_edge_flash
       \/ effect_frame

EffectNext == warm_up \/ EffectStep

EffectSpec == PlayInit /\ [][EffectNext]_vars

(***************************************************************************)
(* spawn_pipe_pair alone: one call for every score of 0..MaxSpawnScore and *)
(* every pair of draws of SpawnDraws                                       *)
(***************************************************************************)
SpawnInit ==
    /\ state = "Playing"
    /\ next_state = "Unchanged"
    /\ space = FALSE
    /\ dt = 0
    /\ bird = spawn_bird
    /\ pipes = <<>>
    /\ spawn_cmds = <<>>
    /\ despawn_cmds = {}
    /\ score \in 0..MaxSpawnScore
    /\ score_text = score
    /\ instruction = "hidden"
    /\ timer = PipeSpawnTimer
    /\ death_events = <<>>
    /\ score_events = 0
    /\ ran = {}
    /\ retired = 0
    /\ ticks = 1
    /\ effects_idle
    /\ call = no_call

\* spawn_pipe_pair(&mut commands, score.0)
spawn_call ==
    /\ spawn_cmds = <<>>
    /\ \E k1 \in SpawnDraws, k2 \in SpawnDraws :
          spawn_cmds' = spawn_pipe_pair(score, k1, k2)
    /\ UNCHANGED <<state, next_state, space, dt, bird, pipes, despawn_cmds, score,
                   score_text, instruction, timer, death_events, score_events, ran,
                   retired, ticks>>
    /\ UNCHANGED <<message_vars, effect_vars, call>>

SpawnSpec == SpawnInit /\ [][spawn_call]_vars

(***************************************************************************)
(* Properties                                                              *)
(***************************************************************************)
\* a step that ends a frame
FrameStep == ticks' # ticks

\* check_collisions found a collision in the frame that is ending
CollisionDetected == death_events # <<>>

\* C1: the game mode starts as Menu and changes only from Menu to Playing on
\* a confirm signal, from Playing to GameOver on a detected collision and from
\* GameOver to Playing on a confirm signal.
C1_ModeTransitions ==
    /\ state = "Menu"
    /\ [][state' # state =>
            \/ state = "Menu" /\ state' = "Playing" /\ space
            \/ state = "Playing" /\ state' = "GameOver" /\ CollisionDetected
            \/ state = "GameOver" /\ state' = "Playing" /\ space]_vars

\* all three transitions have been taken: a frame of Playing begins with the
\* bird at rest while the spawn timer has run, which only a restart produces
C1_Witness ==
    /\ state = "Playing"
    /\ ran = {}
    /\ bird.velocity = 0
    /\ timer.elapsed > 0

\* C2: a collision detected in a Playing frame makes the next frame a GameOver
\* frame, no gameplay system (physics, movement, spawn timer, scorer) runs in
\* a GameOver frame, and GameOver is left only on a confirm signal.
C2_GameOverNotSkipped ==
    [][/\ (FrameStep /\ state = "Playing" /\ CollisionDetected) => state' = "GameOver"
       /\ state' = "GameOver" => ran' \cap PlayingSystems = {}
       /\ (state = "GameOver" /\ state' # "GameOver") => space]_vars

\* a GameOver frame without confirm has run to its end after a collision
C2_Witness ==
    /\ state = "GameOver"
    /\ ~space
    /\ ran = {"restart_game"}
    /\ check_ground_collision(bird.y)

\* C3: the frame after a GameOver to Playing transition starts with no pipes,
\* Score 0 and the bird at rest at its start position with no tilt.
C3_RestartResets ==
    [][(state = "GameOver" /\ state' = "Playing") =>
          /\ pipes' = <<>>
          /\ score' = 0
          /\ bird'.velocity = 0
          /\ bird'.x = -50 /\ bird'.y = 0
          /\ bird'.rotation = 0]_vars

\* restart_game has reset a game that had pipes and a moved, tilted bird
C3_Witness ==
    /\ state = "GameOver"
    /\ "restart_game" \in ran
    /\ next_state = "Playing"
    /\ pipes # <<>>
    /\ despawn_cmds = 1..Len(pipes)
    /\ bird = spawn_bird

\* C4: the GameOver to Playing reset sets the spawn timer back to its full
\* interval, so that the first pair after a restart needs a whole
\* PIPE_SPAWN_TIME of Playing time.
C4_TimerReset ==
    [][(state = "GameOver" /\ state' = "Playing") => timer'.elapsed = 0]_vars

\* the step is the run of system sys in this frame
SystemStep(sys) == sys \notin ran /\ sys \in ran'

\* the Bottom pipes left of the bird that have not been counted
CrossingBottoms ==
    {i \in 1..Len(pipes) :
        pipes[i].role = "Bottom" /\ pipes[i].scored = <<FALSE>> /\ pipes[i].x < bird.x}

\* C5 as stated: Score never decreases, over any sequence of frames, and
\* increases by exactly 1 per Bottom obstacle crossing.
C5_ScoreNeverDecreases ==
    [][/\ score' >= score
       /\ SystemStep("update_score") => score' = score + Cardinality(CrossingBottoms)]_vars

\* C5 (amended): Score is set to 0 by a confirmed restart and decreases in no
\* other step; a run of update_score increases it by exactly 1 per Bottom
\* obstacle crossing and no other step increases it.
C5_ScoreMonotoneBetweenRestarts ==
    [][IF SystemStep("update_score")
       THEN score' = score + Cardinality(CrossingBottoms)
       ELSE IF SystemStep("restart_game") /\ space
            THEN score' = 0
            ELSE score' = score]_vars

\* a restart has reset a Score that update_score had raised to 1
C5_Witness ==
    /\ state = "GameOver"
    /\ "restart_game" \in ran
    /\ next_state = "Playing"
    /\ score = 0
    /\ \E i \in 1..Len(pipes) : pipes[i].scored = <<TRUE>> /\ pipes[i].x < bird.x

\* the pipes carrying Scored(true)
Flagged(ps) == {i \in 1..Len(ps) : ps[i].scored = <<TRUE>>}

\* C6: only Bottom pipes carry the scored flag; the flag is set only from
\* false, in a step where the pipe is left of the bird, and never cleared;
\* between two resets Score is the number of Bottom pipes whose flag was set
\* (those still in the world and those destroyed by pipe_movement).
C6_OncePerPair ==
    /\ [](\A i \in 1..Len(pipes) :
             /\ pipes[i].role = "Top" <=> pipes[i].scored = <<>>
             /\ pipes[i].role = "Bottom" <=> pipes[i].scored \in {<<FALSE>>, <<TRUE>>})
    /\ [](~(state = "GameOver" /\ next_state = "Playing") =>
             score = Cardinality(Flagged(pipes)) + retired)
    /\ [][~FrameStep =>
             /\ Len(pipes') = Len(pipes)
             /\ \A i \in 1..Len(pipes) :
                   /\ pipes[i].scored = <<TRUE>> => pipes'[i].scored = <<TRUE>>
                   /\ pipes'[i].scored # pipes[i].scored =>
                         /\ pipes[i].role = "Bottom"
                         /\ pipes[i].scored = <<FALSE>>
                         /\ pipes[i].x < bird.x]_vars

\* a counted pair has been destroyed at the left boundary while the next one
\* is still uncounted
C6_Witness ==
    /\ state = "Playing"
    /\ score = 1
    /\ retired = 1
    /\ Len(pipes) >= 2
    /\ Flagged(pipes) = {}

\* one of the three collision tests of check_collisions holds
Colliding ==
    \/ check_ground_collision(bird.y)
    \/ check_ceiling_collision(bird.y)
    \/ check_pipe_collisions(bird.x, bird.y, pipes)

\* C7: a run of check_collisions that finds one or several collisions requests
\* GameOver once and raises one Died event, with the bird's position; a
\* Playing to GameOver transition happens exactly in the frames with one
\* Died event, and no frame has more than one.
C7_OneDeathPerGameOver ==
    /\ [](Len(death_events) <= 1 /\ (state # "Playing" => death_events = <<>>))
    /\ [][/\ SystemStep("check_collisions") =>
              IF Colliding
              THEN death_events' = << <<bird.x, bird.y>> >> /\ next_state' = "GameOver"
              ELSE death_events' = <<>> /\ next_state' = next_state
          /\ FrameStep =>
              ((state = "Playing" /\ state' = "GameOver") <=> Len(death_events) = 1)]_vars

\* check_collisions has run after bird_physics and before pipe_movement, with
\* the bird on the floor and inside a pipe at once
C7_Witness ==
    /\ {"bird_physics", "check_collisions"} \subseteq ran
    /\ "pipe_movement" \notin ran
    /\ check_ground_collision(bird.y)
    /\ check_pipe_collisions(bird.x, bird.y, pipes)
    /\ Len(death_events) = 1

\* the pairs <<Top, Bottom>> of indices of the entities queued by spawns
SpawnedPairs == {<<2 * j - 1, 2 * j>> : j \in 1..(Len(spawn_cmds) \div 2)}

\* upper and lower edge of a pipe's rectangle
UpperEdge(p) == FxAdd(p.y, FxHalf(p.h))
LowerEdge(p) == FxSub(p.y, FxHalf(p.h))

\* d = min(score / 20, 1), in twentieths
C8_d == IF score < 20 THEN score ELSE 20

\* C8: the gap size of a spawned pair lies within [gap_min(d), gap_max(d)],
\* with gap_min = 140 + (110 - 140) d and gap_max = 160 + (110 - 160) d; it is
\* in [140, 160] at score 0 and exactly 110 for every score >= 20.
C8_GapWithinBounds ==
    \A pr \in SpawnedPairs :
        LET g == spawn_cmds[pr[1]].gap
        IN  /\ spawn_cmds[pr[2]].gap = g
            /\ FxLe(FxFrac(140 * 20 + (110 - 140) * C8_d, 20), g)
            /\ FxLe(g, FxFrac(160 * 20 + (110 - 160) * C8_d, 20))
            /\ score = 0 => FxLe(FxInt(140), g) /\ FxLe(g, FxInt(160))
            /\ score >= 20 => g = FxInt(110)

\* a pair spawned beyond the difficulty cap, with the largest draw
C8_Witness ==
    /\ score > 20
    /\ spawn_cmds = spawn_pipe_pair(score, RAND_MOD - 1, RAND_MOD - 1)
    /\ spawn_cmds[1].gap = FxInt(110)

\* C9: both pipes of a spawned pair have a strictly positive height, and the
\* gap lies between the floor top and the ceiling: its lower edge (the upper
\* edge of Bottom) is at or above -half_height + GROUND_HEIGHT and its upper
\* edge (the lower edge of Top) at or below half_height.
C9_GapReachable ==
    \A pr \in SpawnedPairs :
        LET top == spawn_cmds[pr[1]]
            bot == spawn_cmds[pr[2]]
        IN  /\ FxLt(FxInt(0), top.h)
            /\ FxLt(FxInt(0), bot.h)
            /\ FxLe(FxInt(-half_height + GROUND_HEIGHT), UpperEdge(bot))
            /\ FxLe(LowerEdge(top), FxInt(half_height))

\* the lowest gap: the smallest draw leaves a Bottom pipe of 25 pixels
C9_Witness ==
    /\ spawn_cmds # <<>>
    /\ score = 0
    /\ spawn_cmds[2].h = FxInt(25)
    /\ FxLt(spawn_cmds[2].gap_y, FxInt(0))

\* C10: the two pipes of a spawned pair have the same x, right edge plus
\* PIPE_WIDTH; Top spans from the ceiling down to gap_center + gap/2, Bottom
\* from the floor top up to gap_center - gap/2, and the lower edge of Top is
\* exactly the gap size above the upper edge of Bottom.
C10_SharedGapGeometry ==
    \A pr \in SpawnedPairs :
        LET top == spawn_cmds[pr[1]]
            bot == spawn_cmds[pr[2]]
        IN  /\ top.role = "Top" /\ bot.role = "Bottom"
            /\ top.x = 260 /\ bot.x = 260
            /\ top.gap_y = bot.gap_y
            /\ UpperEdge(top) = FxInt(300)
            /\ LowerEdge(top) = FxAdd(top.gap_y, FxHalf(top.gap))
            /\ LowerEdge(bot) = FxInt(-250)
            /\ UpperEdge(bot) = FxSub(bot.gap_y, FxHalf(bot.gap))
            /\ FxSub(LowerEdge(top), UpperEdge(bot)) = top.gap

\* a pair spawned half way up the difficulty ramp with an off-centre gap of
\* fractional size
C10_Witness ==
    /\ score = 10
    /\ spawn_cmds = spawn_pipe_pair(score, 1, RAND_MOD \div 4)
    /\ spawn_cmds[1].gap[2] # 0
    /\ spawn_cmds[1].gap_y # FxInt(0)

\* C11: within a tick the steps run in one total order: input, then physics
\* and tilt, then spawn, then move, then collide, then score; a step runs
\* only when every step of a smaller rank has run in this tick.
C11_TotalOrder ==
    [][LET rank(sys) ==
               CASE sys = "bird_flap" -> 1
                 [] sys \in {"bird_physics", "bird_tilt"} -> 2
                 [] sys = "pipe_spawner" -> 3
                 [] sys = "pipe_movement" -> 4
                 [] sys = "check_collisions" -> 5
                 [] sys = "update_score" -> 6
       IN  \A sys \in PlayingSystems :
               SystemStep(sys) =>
                   \A before \in PlayingSystems :
                       rank(before) < rank(sys) => before \in ran]_vars

\* C16 as stated: in every Playing tick without flap signal the vertical
\* position is strictly smaller after bird_physics than before it, for every
\* elapsed time.
C16_AlwaysFalls ==
    [][(SystemStep("bird_physics") /\ ~space) => bird'.y < bird.y]_vars

\* C16 (amended): in every Playing tick without flap signal the vertical
\* position is strictly smaller after bird_physics than before it exactly
\* when the elapsed time is positive and the velocity updated by gravity is
\* negative; with elapsed time 0 the protagonist is unchanged.
C16_FallsWhenVelocityNegative ==
    [][(SystemStep("bird_physics") /\ ~space) =>
          /\ (bird'.y < bird.y) <=> (dt > 0 /\ bird'.velocity < 0)
          /\ dt = 0 => bird' = bird]_vars

\* bird_physics has moved the protagonist up in a tick without flap signal:
\* the velocity left by the flap of the tick before is still positive
C16_Witness ==
    /\ state = "Playing"
    /\ "bird_physics" \in ran
    /\ ~space
    /\ dt > 0
    /\ bird.velocity > 0
    /\ bird.y > BIRD_START_Y

\* C18: a flap signal in a Playing tick overwrites the vertical velocity with
\* FLAP_STRENGTH and changes nothing else of the protagonist; without the
\* signal bird_flap leaves the protagonist unchanged.
C18_FlapOverwritesVelocity ==
    [][SystemStep("bird_flap") =>
          /\ state = "Playing"
          /\ space => bird' = [bird EXCEPT !.velocity = 350]
          /\ ~space => bird' = bird
          /\ UNCHANGED <<state, next_state, pipes, score, timer>>]_vars

\* a flap has replaced a falling velocity by FLAP_STRENGTH, position and
\* rotation as bird_physics and bird_tilt left them
C18_Witness ==
    /\ state = "Playing"
    /\ space
    /\ ran = {"bird_physics", "bird_tilt", "bird_flap"}
    /\ bird.velocity = FLAP_STRENGTH
    /\ bird.y < BIRD_START_Y
    /\ bird.rotation < 0

\* C12: every flap signal accepted while Playing raises a Flap event that
\* carries the protagonist's position (from which the flap particles and the
\* squash animation are started).
C12_FlapRaisesEvent ==
    [][(SystemStep("bird_flap") /\ space) =>
          flap_msgs' = Append(flap_msgs, [position |-> <<bird.x, bird.y>>,
                                          age |-> 0, read_by |-> {}])]_vars

\* the systems with a MessageReader<DeathEvent>
DeathReaders == {"spawn_death_particles", "trigger_death_effects"}

\* the systems with a MessageReader<ScoreEvent>
ScoreReaders == {"trigger_score_pop", "trigger_score_effects"}

\* the messages of msgs that reader has not read
Pending(msgs, reader) == {i \in 1..Len(msgs) : reader \notin msgs[i].read_by}

\* C13: every Died event is followed exactly once, before a restart takes
\* effect, by a ScreenShake trigger (remaining 0.3 s, intensity 8), a
\* ScreenFlash trigger (remaining = total = 0.15 s, peak alpha 0.6) and the
\* spawning of exactly 15 particles at the death position with world
\* velocity zero: each consumer acts on the events it has not read and on
\* nothing else, and at the end of a frame an event that a consumer has not
\* read was raised in this frame, stays in the buffers and GameOver begins,
\* so that at the end of the first GameOver frame both have read it.
C13_DeathEffectsOnce ==
    [][/\ SystemStep("trigger_death_effects") =>
            IF Pending(death_msgs, "trigger_death_effects") # {}
            THEN /\ shake' = [duration |-> (3 * EFFECT_DEN) \div 10,
                              intensity |-> 8, elapsed |-> 0]
                 /\ screen_flash' = [duration |-> (15 * EFFECT_DEN) \div 100,
                                     total_duration |-> (15 * EFFECT_DEN) \div 100,
                                     color |-> "red",
                                     max_alpha |-> (6 * ALPHA_DEN) \div 10]
            ELSE UNCHANGED <<shake, screen_flash>>
       /\ ~SystemStep("trigger_death_effects") =>
            /\ shake'.duration <= shake.duration
            /\ screen_flash'.duration <= screen_flash.duration
       /\ SystemStep("spawn_death_particles") =>
            LET todo == Pending(death_msgs, "spawn_death_particles")
                new  == SubSeq(particle_cmds', Len(particle_cmds) + 1, Len(particle_cmds'))
            IN  /\ SubSeq(particle_cmds', 1, Len(particle_cmds)) = particle_cmds
                /\ Len(new) = 15 * Cardinality(todo)
                /\ \A k \in 1..Len(new) :
                       /\ new[k].world_velocity = <<0, 0>>
                       /\ \E i \in todo : new[k].position = death_msgs[i].position
                /\ \A i \in todo :
                       \E k \in 1..Len(new) : new[k].position = death_msgs[i].position
       /\ (~SystemStep("spawn_death_particles") /\ ~FrameStep) =>
            particle_cmds' = particle_cmds
       /\ FrameStep =>
            \A i \in 1..Len(death_msgs) :
                \/ DeathReaders \subseteq death_msgs[i].read_by
                \/ /\ state = "Playing" /\ state' = "GameOver"
                   /\ death_msgs[i].read_by = {}
                   /\ \E j \in 1..Len(death_msgs') :
                          death_msgs'[j].position = death_msgs[i].position]_vars

\* both consumers have acted on the Died event in the first GameOver frame,
\* in which a restart is requested as well
C13_Witness ==
    /\ state = "GameOver"
    /\ ran = {"restart_game"} \cup DeathReaders
    /\ next_state = "Playing"
    /\ Len(death_msgs) = 1
    /\ death_msgs[1].read_by = DeathReaders
    /\ shake = [duration |-> SCREEN_SHAKE_DURATION, intensity |-> SCREEN_SHAKE_INTENSITY,
                elapsed |-> 0]
    /\ screen_flash.duration = DEATH_FLASH_DURATION
    /\ Len(particle_cmds) = DEATH_PARTICLE_COUNT
    /\ particle_cmds[1].position = death_msgs[1].position

\* C14: every Scored event raised by the scorer triggers the EdgeFlash and
\* starts a score-pop animation, the one raised in the last Playing tick
\* before GameOver included: no Scored event leaves the message buffers
\* before trigger_score_effects and trigger_score_pop have read it.
C14_ScoreEffectsAlways ==
    [][FrameStep =>
          \A i \in 1..Len(score_msgs) :
              (Len(score_msgs') = 0 \/ score_msgs[i].age > score_msgs'[1].age)
                  => ScoreReaders \subseteq score_msgs[i].read_by]_vars

\* C15: every effect event is consumed by each of its consumers within the
\* tick in which it is raised and is not carried over: at the end of a tick
\* every event in the buffers has been read by all its consumers.
C15_ConsumedSameTick ==
    [][FrameStep =>
          /\ \A i \in 1..Len(score_msgs) : ScoreReaders \subseteq score_msgs[i].read_by
          /\ \A i \in 1..Len(death_msgs) : DeathReaders \subseteq death_msgs[i].read_by]_vars

\* C20: at the end of every tick in which a decaying resource has remaining
\* time <= 0 its output is neutral: overlay alpha exactly 0 for the screen
\* flash and the edge flash, camera offset (0, 0) for the shake.
C20_NeutralWhenExpired ==
    [][FrameStep =>
          /\ screen_flash.duration <= 0 => flash_sprite.alpha = 0
          /\ edge_flash.duration <= 0 => edge_sprite.alpha = 0
          /\ shake.duration <= 0 => camera = "zero"]_vars

\* C17: one physics step is semi-implicit Euler: velocity' = velocity +
\* GRAVITY * dt, then y' = y + velocity' * dt with the updated velocity (dt =
\* n/den, both sides multiplied by den and den^2); from y = 0, velocity =
\* -900 and dt = 0.02 with GRAVITY = -800 the step gives velocity -916 and
\* y -18.32.
C17_SemiImplicitEuler ==
    (call.fn = "bird_physics" /\ call.result # <<>>) =>
        LET r == call.result[1]
        IN  /\ r.velocity = call.velocity * call.den + (-800) * call.n
            /\ r.y = call.y * call.den * call.den + r.velocity * call.n
            /\ (call.velocity = -900 /\ call.y = 0 /\ call.n = 1 /\ call.den = 50) =>
                   /\ r.velocity = -916 * 50
                   /\ 100 * r.y = -1832 * 50 * 50

\* the step of the scenario has been computed
C17_Witness ==
    /\ call.fn = "bird_physics"
    /\ call.velocity = -900 /\ call.y = 0 /\ call.n = 1 /\ call.den = 50
    /\ call.result # <<>>
    /\ call.result[1].velocity < call.velocity * call.den

\* C19: for ScreenFlashState and EdgeFlashState is_active holds iff the
\* remaining duration is > 0, and current_alpha is (remaining / total) * peak
\* when total > 0 (rounded down to a whole 1/ALPHA_DEN) and 0 when total <= 0;
\* total 0.1 s, remaining 0.05 s and peak 0.3 give 0.15.
C19_FlashAlpha ==
    (call.fn = "current_alpha" /\ call.result # <<>>) =>
        LET r == call.result[1]
        IN  /\ r.is_active <=> call.duration > 0
            /\ call.total_duration > 0 =>
                   /\ r.current_alpha * call.total_duration <= call.duration * call.max_alpha
                   /\ call.duration * call.max_alpha
                          < (r.current_alpha + 1) * call.total_duration
            /\ call.total_duration <= 0 => r.current_alpha = 0
            /\ (/\ 10 * call.total_duration = EFFECT_DEN
                /\ 100 * call.duration = 5 * EFFECT_DEN
                /\ 10 * call.max_alpha = 3 * ALPHA_DEN) =>
                   100 * r.current_alpha = 15 * ALPHA_DEN

\* the alpha of the scenario has been computed for an EdgeFlashState
C19_Witness ==
    /\ call.fn = "current_alpha"
    /\ call.resource = "EdgeFlashState"
    /\ call.total_duration = SCORE_FLASH_DURATION
    /\ 2 * call.duration = SCORE_FLASH_DURATION
    /\ call.max_alpha = SCORE_FLASH_ALPHA
    /\ call.result # <<>>
    /\ call.result[1].is_active
    /\ call.result[1].current_alpha > 0

\* C22: in every tick spent in Menu, or in GameOver without the confirm
\* signal, no step changes the protagonist's velocity and position, the
\* pipes with their positions and scored flags, Score or the time elapsed on
\* the spawn timer: the timer is paused, not reset.
C22_IdleTicksChangeNothing ==
    [][(state = "Menu" \/ (state = "GameOver" /\ ~space)) =>
          /\ bird'.velocity = bird.velocity
          /\ bird'.x = bird.x /\ bird'.y = bird.y
          /\ pipes' = pipes
          /\ score' = score
          /\ timer' = timer]_vars

\* a GameOver frame without the confirm signal has ended with a pipe pair in
\* the world, one pipe counted, and time elapsed on the spawn timer
C22_Witness ==
    /\ state = "GameOver"
    /\ ~space
    /\ ran = {}
    /\ ticks > 3
    /\ pipes # <<>>
    /\ score > 0
    /\ timer.elapsed > 0
    /\ bird.y < BIRD_START_Y

\* C23: a run of pipe_movement lowers every pipe's x by WORLD_SCROLL_SPEED *
\* dt and queues the destruction of exactly the pipes whose x after the move
\* is < -(WINDOW_WIDTH/2 + PIPE_WIDTH); no step raises an x; pipes leave the
\* world only at the end of a frame, destroyed by this rule in Playing or by
\* the restart reset in GameOver (the frames after the warm-up).
C23_PipesScrollAndLeave ==
    [][ticks >= 1 =>
          /\ SystemStep("pipe_movement") =>
                /\ state = "Playing"
                /\ Len(pipes') = Len(pipes)
                /\ \A i \in 1..Len(pipes) :
                       /\ TIME_DEN * pipes'[i].x = TIME_DEN * pipes[i].x - 150 * dt
                       /\ pipes'[i].x <= pipes[i].x
                       /\ (i \in despawn_cmds') <=> (i \in despawn_cmds \/ pipes'[i].x < -(200 + 60))
          /\ (~SystemStep("pipe_movement") /\ ~FrameStep) =>
                /\ Len(pipes') = Len(pipes)
                /\ \A i \in 1..Len(pipes) : pipes'[i].x = pipes[i].x
                /\ \/ despawn_cmds' = despawn_cmds
                   \/ SystemStep("restart_game") /\ space
          /\ FrameStep =>
                /\ \A i \in despawn_cmds :
                       \/ state = "Playing" /\ pipes[i].x < -(200 + 60)
                       \/ state = "GameOver" /\ next_state = "Playing"
                /\ Len(pipes') = Len(pipes) - Cardinality(despawn_cmds) + Len(spawn_cmds)
                /\ \A i \in 1..Len(pipes) :
                       i \notin despawn_cmds =>
                           pipes'[i - Cardinality({j \in despawn_cmds : j < i})] = pipes[i]]_vars

\* pipe_movement has moved the first pair past -(WINDOW_WIDTH/2 + PIPE_WIDTH)
\* and queued its destruction, the second pair stays
C23_Witness ==
    /\ state = "Playing"
    /\ "pipe_movement" \in ran
    /\ Len(pipes) = 4
    /\ despawn_cmds = {1, 2}
    /\ pipes[1].x < -(WINDOW_WIDTH \div 2) - PIPE_WIDTH
    /\ pipes[3].x > pipes[1].x

\* C24: when no bird entity exists in a Playing tick, check_collisions,
\* update_score and bird_physics return without an effect: the mode is not
\* changed, no Died or Scored event is raised, Score and every scored flag
\* are unchanged.
C24_NoBirdNoOp ==
    (call.fn \in {"check_collisions", "update_score", "bird_physics"}
        /\ call.result # <<>> /\ call.world.birds = <<>>) =>
        LET r == call.result[1]
        IN  /\ r.next_state = "Unchanged"
            /\ r.death_events = <<>>
            /\ r.score_events = 0
            /\ r.score = call.world.score
            /\ r.pipes = call.world.pipes
            /\ r.birds = <<>>

\* update_score has run without a bird on a world with an uncounted Bottom
\* pipe left of the bird's start position
C24_Witness ==
    /\ call.fn = "update_score"
    /\ call.result # <<>>
    /\ call.world.birds = <<>>
    /\ \E i \in 1..Len(call.world.pipes) :
          /\ call.world.pipes[i].scored = <<FALSE>>
          /\ call.world.pipes[i].x < BIRD_START_X
    /\ call.result[1].score = call.world.score

\* C28: in a Playing tick with the flap signal the impulse is applied before
\* the integration, in every execution of the scheduled systems: the
\* velocity at the end of the tick is FLAP_STRENGTH + GRAVITY * dt, and
\* bird_physics moves y by (FLAP_STRENGTH + GRAVITY * dt) * dt.
C28_ImpulseBeforeIntegration ==
    [][(state = "Playing" /\ space) =>
          LET v == FLAP_STRENGTH + (GRAVITY * dt) \div TIME_DEN
          IN  /\ FrameStep => bird.velocity = v
              /\ SystemStep("bird_physics") =>
                    bird'.y = bird.y + (v * dt) \div TIME_DEN]_vars

\* C27: the floor is hit iff y - BIRD_SIZE/2 <= -half_height + GROUND_HEIGHT
\* and the ceiling iff y + BIRD_SIZE/2 >= half_height (touching counts); a
\* pipe is hit iff the bird's centred square and the pipe's centred rectangle
\* share an interval of positive length on the x and on the y axis (edges
\* that only touch do not collide); check_collisions reports a collision iff
\* the floor, the ceiling or some pipe is hit.
C27_CollisionPredicates ==
    (call.fn = "check_collisions_predicates" /\ call.result # <<>>) =>
        LET r == call.result[1]
            b == call.bird
            FxMin(u, v) == IF FxLt(u, v) THEN u ELSE v
            FxMax(u, v) == IF FxLt(u, v) THEN v ELSE u
            Min(u, v) == IF u < v THEN u ELSE v
            Max(u, v) == IF u < v THEN v ELSE u
            overlap_x(p) == Min(b.x + BIRD_SIZE \div 2, p.x + p.w \div 2)
                            - Max(b.x - BIRD_SIZE \div 2, p.x - p.w \div 2)
            overlap_y(p) == FxSub(FxMin(FxInt(b.y + BIRD_SIZE \div 2), FxAdd(p.y, FxHalf(p.h))),
                                  FxMax(FxInt(b.y - BIRD_SIZE \div 2), FxSub(p.y, FxHalf(p.h))))
            floor_hit == b.y - BIRD_SIZE \div 2 <= -half_height + GROUND_HEIGHT
            ceiling_hit == b.y + BIRD_SIZE \div 2 >= half_height
            pipe_hit == \E i \in 1..Len(call.pipes) :
                            /\ overlap_x(call.pipes[i]) > 0
                            /\ FxLt(FxInt(0), overlap_y(call.pipes[i]))
        IN  /\ r.ground = floor_hit
            /\ r.ceiling = ceiling_hit
            /\ r.pipe = pipe_hit
            /\ r.reported = (floor_hit \/ ceiling_hit \/ pipe_hit)

\* the pipe's right edge is exactly at the square's left edge while the two
\* overlap vertically, away from floor and ceiling: nothing is reported
C27_Witness ==
    /\ call.fn = "check_collisions_predicates"
    /\ call.result # <<>>
    /\ call.pipes # <<>>
    /\ call.pipes[1].x + call.pipes[1].w \div 2 = call.bird.x - half_bird
    /\ call.bird.y = bottom_pipe_top + half_bird - 1
    /\ ~call.result[1].ground
    /\ ~call.result[1].reported

\* C26: every call of rand_f32, from any seed state, returns a value v with
\* 0.0 <= v < 1.0 (v = m / 2^(MANTISSA_BITS + e) with e >= 0).
C26_RandInUnitInterval ==
    (call.fn = "rand_f32" /\ call.result # <<>>) =>
        LET v == call.result[1].value
        IN  /\ v.m >= 0
            /\ v.e >= 0
            /\ v.e > 0 \/ v.m < 2^MANTISSA_BITS

\* a call has returned the largest value, 9999 / 10000 rounded to f32
C26_Witness ==
    /\ call.fn = "rand_f32"
    /\ call.result # <<>>
    /\ seed_mod(call.result[1].SEED) = RAND_MOD - 1
    /\ call.result[1].value.e = 0
    /\ call.result[1].value.m > 2^(MANTISSA_BITS - 1)

\* C25: over any sequence of window-resize events the logical height of the
\* viewport never changes, and after a resize the logical width is
\* height * (window_width / window_height): width * window_height =
\* height * window_width for a window with a height, infinite for a window
\* of height 0 with a width, not a number for a window of size 0 x 0.
C25_HeightFixedWidthFollows ==
    (call.fn = "update_viewport" /\ call.result # <<>>) =>
        LET after == call.result[1]
        IN  /\ after.height = call.viewport.height
            /\ call.events # <<>> =>
                  LET last == call.events[Len(call.events)]
                      window_width == last[1]
                      window_height == last[2]
                  IN  IF window_height # 0
                      THEN /\ after.width.kind = "finite"
                           /\ after.width.num * window_height =
                                  after.height * window_width * after.width.den
                      ELSE after.width.kind = (IF window_width = 0 THEN "nan" ELSE "inf")

\* two resizes have been read, the last one to a window one pixel higher
\* than the viewport: the width is a proper fraction, the height as before
C25_Witness ==
    /\ call.fn = "update_viewport"
    /\ call.result # <<>>
    /\ Len(call.events) = 2
    /\ call.events[2] = <<WINDOW_WIDTH, WINDOW_HEIGHT + 1>>
    /\ call.result[1].width.den > 1
    /\ call.result[1].width # call.viewport.width
    /\ call.result[1].height = GAME_HEIGHT

\* C21: the decay systems run in every tick whatever the mode; a run on an
\* active shake or flash takes the elapsed time of the tick from the remaining
\* duration (strictly less is left when dt > 0), and nothing but a trigger
\* sets the duration otherwise, so that an effect that is not triggered again
\* becomes inactive after finitely many ticks with dt > 0.
C21_DecayInEveryMode ==
    [][ticks >= 1 =>
          /\ FrameStep =>
                {"update_screen_shake", "update_screen_flash", "update_edge_flash"}
                    \subseteq ran
          /\ IF SystemStep("update_screen_shake")
             THEN /\ is_active(shake) =>
                        shake'.duration = shake.duration - effect_dt(dt)
                  /\ (is_active(shake) /\ dt > 0) => shake'.duration < shake.duration
                  /\ ~is_active(shake) => shake' = shake
             ELSE \/ shake'.duration = shake.duration
                  \/ /\ SystemStep("trigger_death_effects")
                     /\ shake'.duration = SCREEN_SHAKE_DURATION
          /\ IF SystemStep("update_screen_flash")
             THEN /\ is_active(screen_flash) =>
                        screen_flash'.duration = screen_flash.duration - effect_dt(dt)
                  /\ (is_active(screen_flash) /\ dt > 0) =>
                        screen_flash'.duration < screen_flash.duration
                  /\ ~is_active(screen_flash) => screen_flash' = screen_flash
             ELSE \/ screen_flash'.duration = screen_flash.duration
                  \/ /\ SystemStep("trigger_death_effects")
                     /\ screen_flash'.duration = DEATH_FLASH_DURATION
          /\ IF SystemStep("update_edge_flash")
             THEN /\ is_active(edge_flash) =>
                        edge_flash'.duration = edge_flash.duration - effect_dt(dt)
                  /\ (is_active(edge_flash) /\ dt > 0) =>
                        edge_flash'.duration < edge_flash.duration
                  /\ ~is_active(edge_flash) => edge_flash' = edge_flash
             ELSE \/ edge_flash'.duration = edge_flash.duration
                  \/ /\ SystemStep("trigger_score_effects")
                     /\ edge_flash'.duration = SCORE_FLASH_DURATION]_vars

\* the shake triggered in GameOver has gone on decaying after the restart and
\* has become inactive in a Playing tick
C21_Witness ==
    /\ state = "Playing"
    /\ "update_screen_shake" \in ran
    /\ shake.intensity = SCREEN_SHAKE_INTENSITY
    /\ shake.elapsed > 0
    /\ ~is_active(shake)

\* C29: in every tick, whatever the mode, the remaining lifetime of every
\* particle decreases by dt (strictly for dt > 0); a particle exists only
\* with a positive lifetime and is destroyed in the tick in which the
\* lifetime reaches 0 or less; otherwise its position moves by its local
\* velocity * dt, plus its world-scroll velocity * dt in Playing ticks only.
C29_ParticleLifeAndMotion ==
    [][call.fn = "update_particles" =>
          \A i \in 1..Len(call.particles) :
              LET p == call.particles[i]
                  q == call'.particles[i]
                  d == call'.dt
                  scroll == IF call'.game_state = "Playing" THEN 1 ELSE 0
              IN  IF p.despawned THEN q = p
                  ELSE /\ p.lifetime > 0
                       /\ q.lifetime = p.lifetime - d * (LIFE_DEN \div TIME_DEN)
                       /\ d > 0 => q.lifetime < p.lifetime
                       /\ q.despawned <=> q.lifetime <= 0
                       /\ ~q.despawned =>
                             /\ q.x = p.x + p.velocity[1] * d
                                          + scroll * p.world_velocity[1] * d
                             /\ q.y = p.y + p.velocity[2] * d
                                          + scroll * p.world_velocity[2] * d]_vars

\* after a GameOver tick of 0.2 s one flap particle is gone and the other has
\* drifted by its own velocity only
C29_Witness ==
    /\ call.fn = "update_particles"
    /\ call.ticks = MaxParticleTicks - 1
    /\ call.game_state = "GameOver"
    /\ call.dt > 0
    /\ call.particles[1].kind = "FlapParticle"
    /\ call.particles[1].despawned
    /\ ~call.particles[2].despawned
    /\ call.particles[2].x > BIRD_START_X * VEL_DEN * TIME_DEN - 7 * 20 * VEL_DEN

\* C30: a started squash/stretch or score-pop animation advances its timer
\* by dt in every tick, whatever the mode (strictly for dt > 0); a running
\* animation has a timer below its duration, and in the tick in which the
\* timer reaches the duration the scale is reset to (1, 1, 1) and the
\* animation is removed, unless a new event of the tick starts it again;
\* an entity without animation has the neutral scale.
C30_AnimationRunsToNeutral ==
    [][call.fn \in {"update_score_pop", "update_bird_squash"} =>
          LET e == call.entity
              f == call'.entity
              d == call'.dt
              fresh == IF call.fn = "update_score_pop"
                       THEN ScorePopAnimation ELSE BirdSquashStretch
              restarted == call'.event /\ f.anim = <<fresh>>
          IN  IF e.anim = <<>>
              THEN /\ e.scale = NEUTRAL
                   /\ f.scale = NEUTRAL
                   /\ f.anim = <<>> \/ restarted
              ELSE LET t == e.anim[1].timer + d
                   IN  /\ e.anim[1].timer < e.anim[1].duration
                       /\ d > 0 => t > e.anim[1].timer
                       /\ IF t >= e.anim[1].duration
                          THEN /\ f.scale = NEUTRAL
                               /\ f.anim = <<>> \/ restarted
                          ELSE \/ f.anim = <<[e.anim[1] EXCEPT !.timer = t]>>
                               \/ restarted]_vars

\* the score pop has run for three ticks, in GameOver at the end, and has
\* been removed in the tick in which its timer reached the duration
C30_Witness ==
    /\ call.fn = "update_score_pop"
    /\ call.ticks = 3
    /\ call.game_state = "GameOver"
    /\ call.dt = 1
    /\ call.entity.remove
    /\ call.entity.anim = <<>>
    /\ call.entity.scale = NEUTRAL

\* C31: for every FlapEvent that spawn_flap_particles consumes and every draw
\* of rand_f32, the number of particles spawned for the event is an integer
\* from FLAP_PARTICLE_COUNT_MIN = 3 to FLAP_PARTICLE_COUNT_MAX = 6, and the
\* system queues exactly the particles of the events it consumed.
C31_FlapParticleCount ==
    (call.fn = "spawn_flap_particles" /\ call.result # <<>>) =>
        LET bursts == call.result[1].bursts
            total(n) == IF n = 1 THEN Len(bursts[1])
                        ELSE Len(bursts[1]) + Len(bursts[2])
        IN  /\ Len(bursts) = Len(call.events)
            /\ \A i \in 1..Len(bursts) :
                   /\ Len(bursts[i]) \in FLAP_PARTICLE_COUNT_MIN..FLAP_PARTICLE_COUNT_MAX
                   /\ Len(bursts[i]) \in 3..6
            /\ Len(call.result[1].particle_cmds) = total(Len(bursts))

\* two events were consumed, the first with the largest draw and six
\* particles, the second with the smallest draw and three particles
C31_Witness ==
    /\ call.fn = "spawn_flap_particles"
    /\ call.result # <<>>
    /\ call.ks = <<RAND_MOD - 1, 0>>
    /\ Len(call.result[1].bursts[1]) = FLAP_PARTICLE_COUNT_MAX
    /\ Len(call.result[1].bursts[2]) = FLAP_PARTICLE_COUNT_MIN
    /\ Len(call.result[1].particle_cmds) = 9

\* C32: the random source reads the wall clock only once: SEED is 0 only
\* before the first call of rand_f32 has returned, every call stores a
\* non-zero seed that differs from the non-zero seed it started from (one
\* xorshift64 step), and no call after the first one seeds from the clock.
C32_ClockReadOnce ==
    call.fn = "rand_f32_concurrent" =>
        /\ call.clock_reads <= 1
        /\ call.SEED = {} => call.returned = <<>>
        /\ \A i \in 1..Len(call.returned) :
               LET r == call.returned[i]
               IN  /\ r.from # {}
                   /\ r.SEED = xorshift64(r.from)
                   /\ r.SEED # {}
                   /\ r.SEED # r.from

\* C33: the press that starts or restarts the game is not applied as a flap.
\* The first Playing tick after Menu -> Playing or GameOver -> Playing begins
\* with velocity 0; in a Playing tick that begins with velocity 0 and has no
\* press of its own, the velocity stays 0 until bird_physics runs (bird_flap
\* does not set it to FLAP_STRENGTH), bird_physics makes it 0 + GRAVITY * dt,
\* and it keeps that value until the tick ends.
C33_ConfirmIsNotAFlap ==
    [][/\ (FrameStep /\ state # "Playing" /\ state' = "Playing") =>
              bird'.velocity = 0
       /\ (state = "Playing" /\ ~space /\ ~FrameStep /\ "bird_physics" \notin ran
               /\ bird.velocity = 0) =>
              IF SystemStep("bird_physics")
              THEN bird'.velocity = (GRAVITY * dt) \div TIME_DEN
              ELSE bird'.velocity = 0
       /\ (state = "Playing" /\ ~space /\ ~FrameStep /\ "bird_physics" \in ran) =>
              bird'.velocity = bird.velocity]_vars

\* the first Playing tick after a restart (the timer has run before, the
\* actor is one step below its start) has run bird_flap and bird_physics
\* without a press of its own: the velocity is GRAVITY * dt, not a flap's
C33_Witness ==
    /\ state = "Playing"
    /\ ~space
    /\ dt = 1
    /\ {"bird_flap", "bird_physics"} \subseteq ran
    /\ timer.elapsed >= 2
    /\ bird.velocity = GRAVITY \div TIME_DEN
    /\ bird.y = BIRD_START_Y + (GRAVITY \div TIME_DEN) \div TIME_DEN

\* C34 as stated: in a tick in which check_collisions detects a collision, Score
\* is not incremented and no Scored event is raised (so the Score held in
\* GameOver is the Score at the start of the tick of the death).
C34_NoScoreInDeathTick ==
    (state = "Playing" /\ CollisionDetected) => score_events = 0

\* C34 (amended): update_score counts in every Playing tick, also in one in
\* which check_collisions detects a collision: it adds to Score, and raises
\* as ScoreEvents, the number of Bottom obstacles with scored = false whose x
\* is left of the actor's x.  The Score when the tick of the death ends is
\* the Score held in GameOver, until restart_game resets it.
C34_ScoreCountsInDeathTick ==
    [][ticks >= 1 =>
          /\ SystemStep("update_score") =>
                 LET n == Cardinality({i \in 1..Len(pipes) :
                                          /\ pipes[i].role = "Bottom"
                                          /\ pipes[i].scored = <<FALSE>>
                                          /\ pipes[i].x < bird.x})
                 IN  score' = score + n /\ score_events' = score_events + n
          /\ (state = "Playing" /\ ~SystemStep("update_score")) => score' = score
          /\ (state = "GameOver" /\ ~(SystemStep("restart_game") /\ space)) =>
                 score' = score]_vars

\* update_score and check_collisions have both run in the tick: a collision
\* was detected, GameOver is requested, and the same tick counted a pair
C34_Witness ==
    /\ state = "Playing"
    /\ {"check_collisions", "update_score"} \subseteq ran
    /\ CollisionDetected
    /\ next_state = "GameOver"
    /\ score_events = 1
    /\ score >= 1

C36_OnePairPerTick ==
    (call.fn = "pipe_spawner" /\ call.result # <<>>) =>
        LET spawned   == call.result[1].spawn_cmds
            completed == (call.timer.elapsed + call.dt) \div (PIPE_SPAWN_TIME * TIME_DEN)
        IN  /\ Len(spawned) \in {0, 2}
            /\ Len(spawned) = 2 =>
                   /\ spawned[1].role = "Top"
                   /\ spawned[2].role = "Bottom"
                   /\ call.state = "Playing"
                   /\ completed >= 1
            /\ (call.state = "Playing" /\ completed = 0) => spawned = <<>>
            /\ call.state # "Playing" => spawned = <<>>

\* one tick of more than two intervals: the timer completed two intervals
\* and one pair was spawned
C36_Witness ==
    /\ call.fn = "pipe_spawner"
    /\ call.result # <<>>
    /\ call.state = "Playing"
    /\ call.dt > 2 * PIPE_SPAWN_TIME * TIME_DEN
    /\ call.result[1].timer.times_finished = 2
    /\ Len(call.result[1].spawn_cmds) = 2

\* C37: in every reachable state the obstacles exist in complete pairs: the
\* pipes are a Top followed by its Bottom with the same x, no other Bottom
\* has that x, pipe_movement moves the two by the same amount, and the
\* despawn of one is queued exactly when the despawn of the other is, so
\* that both are destroyed when the commands of the tick are applied.
C37_CompletePairs ==
    [][LET Complete(ps, gone) ==
               /\ Len(ps) % 2 = 0
               /\ \A j \in 1..(Len(ps) \div 2) :
                      /\ ps[2 * j - 1].role = "Top"
                      /\ ps[2 * j].role = "Bottom"
                      /\ ps[2 * j - 1].x = ps[2 * j].x
                      /\ (2 * j - 1 \in gone) <=> (2 * j \in gone)
                      /\ \A k \in 1..(Len(ps) \div 2) :
                             ps[2 * k].x = ps[2 * j].x => k = j
       IN  /\ Complete(pipes, despawn_cmds)
           /\ Complete(pipes', despawn_cmds')
           /\ Complete(spawn_cmds', {})
           /\ SystemStep("pipe_movement") =>
                  /\ Len(pipes') = Len(pipes)
                  /\ \A j \in 1..(Len(pipes) \div 2) :
                         pipes'[2 * j - 1].x - pipes[2 * j - 1].x
                             = pipes'[2 * j].x - pipes[2 * j].x
           /\ (FrameStep /\ ticks >= 1) =>
                  Len(pipes') = Len(pipes) - Cardinality(despawn_cmds)
                                    + Len(spawn_cmds)]_vars

\* two pairs are in play and have been moved in this tick; the first pair is
\* past the left boundary and both of its pipes are queued for despawn
C37_Witness ==
    /\ state = "Playing"
    /\ {"pipe_movement", "update_score"} \subseteq ran
    /\ dt = 1
    /\ Len(pipes) = 4
    /\ pipes[1].role = "Top" /\ pipes[2].role = "Bottom"
    /\ pipes[1].x = pipes[2].x
    /\ pipes[3].x = pipes[4].x
    /\ despawn_cmds = {1, 2}

\* C38: in every reachable state the actor's vertical velocity is at most
\* FLAP_STRENGTH = 350: a flap overwrites it with FLAP_STRENGTH, gravity
\* only lowers it and the restart sets it to 0.
C38_VelocityBounded ==
    /\ bird.velocity <= FLAP_STRENGTH
    /\ bird.velocity <= 350

\* the actor, above its start after an earlier flap, has flapped again and
\* bird_physics has run in a frame of no time: the velocity is at the bound
C38_Witness ==
    /\ state = "Playing"
    /\ space
    /\ dt = 0
    /\ {"bird_flap", "bird_physics"} \subseteq ran
    /\ bird.velocity = FLAP_STRENGTH
    /\ bird.y > BIRD_START_Y

\* C39: every call of rand_f32 advances the global seed by exactly one
\* xorshift step (the SEED it stores is one step after the SEED it replaces)
\* and no two calls return a value computed from the same seed, also when two
\* of the systems that call it run concurrently: while one call is between
\* its load and its store of SEED no other call is.
C39_CallsNeverInterleave ==
    call.fn = "rand_f32_concurrent" =>
        /\ \A p \in DOMAIN call.pc, q \in DOMAIN call.pc :
               (call.pc[p] = "store" /\ call.pc[q] = "store") => p = q
        /\ \A i \in 1..Len(call.returned) :
               call.returned[i].before # {} =>
                   call.returned[i].SEED = xorshift64(call.returned[i].before)
        /\ \A i \in 1..Len(call.returned), j \in 1..Len(call.returned) :
               call.returned[i].from = call.returned[j].from => i = j
=============================================================================
